---- MODULE Spec2Model ----
(***************************************************************************)
(* A model of the ABeamer expression evaluator                              *)
(* (src/client/lib/js/expressions.ts): the lexer `parser`, the             *)
(* stack-based state machine `_stateMachine` with its reductions           *)
(* calcStackLeft / calcStackRight, and the unary and binary computations.  *)
(*                                                                         *)
(* Texts are sequences of one-character strings.  Indexes into the text    *)
(* and into the stack are the 0-based indexes of the source.               *)
(*                                                                         *)
(* Numbers: a JavaScript number is modelled as an exact rational           *)
(* [n |-> numerator, d |-> denominator] with d > 0 and gcd(n, d) = 1;      *)
(* d = 0 holds Infinity (n = 1), -Infinity (n = -1) and NaN (n = 0), and   *)
(* d = -1 holds `undefined` read as a number.  Binary rounding of IEEE     *)
(* doubles and the sign of zero are not modelled.                          *)
(***************************************************************************)
EXTENDS Integers, Sequences, FiniteSets, TLC

\* ------------------------------------------------------------------------
\*                               Characters
\* ------------------------------------------------------------------------

\* expr[pos] past the end of the text
EOF == ""

Digits == <<"0", "1", "2", "3", "4", "5", "6", "7", "8", "9">>

LowerCase == {"a", "b", "c", "d", "e", "f", "g", "h", "i", "j", "k", "l", "m",
              "n", "o", "p", "q", "r", "s", "t", "u", "v", "w", "x", "y", "z"}

UpperCase == {"A", "B", "C", "D", "E", "F", "G", "H", "I", "J", "K", "L", "M",
              "N", "O", "P", "Q", "R", "S", "T", "U", "V", "W", "X", "Y", "Z"}

CharRanges == UpperCase \cup LowerCase

isCharacter(ch) == ch \in CharRanges

isDigit(ch) == \E i \in 1..10 : Digits[i] = ch

isCharacterOrNum(ch) == isDigit(ch) \/ isCharacter(ch)

DigitValue(ch) == (CHOOSE i \in 1..10 : Digits[i] = ch) - 1

\* expr[pos]
Ch(expr, pos) == IF pos >= 0 /\ pos < Len(expr) THEN expr[pos + 1] ELSE EOF

\* expr.substring(from, to)
Substring(expr, from, to) ==
    LET hi == IF to > Len(expr) THEN Len(expr) ELSE to
    IN  IF from >= hi THEN <<>> ELSE SubSeq(expr, from + 1, hi)

\* ------------------------------------------------------------------------
\*                               Numbers
\* ------------------------------------------------------------------------

Abs(i) == IF i < 0 THEN -i ELSE i

Sign(i) == IF i < 0 THEN -1 ELSE IF i > 0 THEN 1 ELSE 0

RECURSIVE Gcd(_, _)
Gcd(a, b) == IF b = 0 THEN a ELSE Gcd(b, a % b)

NaN == [n |-> 0, d |-> 0]
Infinity == [n |-> 1, d |-> 0]
NegInfinity == [n |-> -1, d |-> 0]
undefinedNum == [n |-> 0, d |-> -1]

\* the rational n / d, d # 0, in lowest terms
Ratio(n, d) ==
    LET g == Gcd(Abs(n), Abs(d))
    IN  [n |-> Sign(d) * (n \div g), d |-> Abs(d) \div g]

Int2Num(i) == [n |-> i, d |-> 1]

IsFiniteNum(x) == x.d > 0
IsNaN(x) == x.d <= 0 /\ x.n = 0
IsInteger(x) == x.d = 1

\* a + b
NumAdd(a, b) ==
    IF IsNaN(a) \/ IsNaN(b) THEN NaN
    ELSE IF IsFiniteNum(a) /\ IsFiniteNum(b) THEN Ratio(a.n * b.d + b.n * a.d, a.d * b.d)
    ELSE IF IsFiniteNum(a) THEN b
    ELSE IF IsFiniteNum(b) THEN a
    ELSE IF a = b THEN a ELSE NaN

NumNeg(a) == IF a.d < 0 THEN NaN ELSE [n |-> -a.n, d |-> a.d]

\* a - b
NumSub(a, b) == NumAdd(a, NumNeg(b))

\* a * b
NumMul(a, b) ==
    IF IsNaN(a) \/ IsNaN(b) THEN NaN
    ELSE IF IsFiniteNum(a) /\ IsFiniteNum(b) THEN Ratio(a.n * b.n, a.d * b.d)
    ELSE IF a.n = 0 \/ b.n = 0 THEN NaN
    ELSE [n |-> Sign(a.n) * Sign(b.n), d |-> 0]

\* a / b
NumDiv(a, b) ==
    IF IsNaN(a) \/ IsNaN(b) THEN NaN
    ELSE IF IsFiniteNum(a) /\ IsFiniteNum(b)
         THEN IF b.n = 0
              THEN (IF a.n = 0 THEN NaN ELSE [n |-> Sign(a.n), d |-> 0])
              ELSE Ratio(a.n * b.d, a.d * b.n)
    ELSE IF IsFiniteNum(b) THEN [n |-> a.n * (IF b.n < 0 THEN -1 ELSE 1), d |-> 0]
    ELSE IF IsFiniteNum(a) THEN Int2Num(0)
    ELSE NaN

\* the integer part of the finite number a (rounded towards zero)
NumTrunc(a) == Sign(a.n) * (Abs(a.n) \div a.d)

\* a % b: the remainder has the sign of the dividend
NumMod(a, b) ==
    IF IsNaN(a) \/ IsNaN(b) \/ ~IsFiniteNum(a) THEN NaN
    ELSE IF ~IsFiniteNum(b) THEN a
    ELSE IF b.n = 0 THEN NaN
    ELSE NumSub(a, NumMul(b, Int2Num(NumTrunc(NumDiv(a, b)))))

\* a < b
NumLess(a, b) ==
    IF IsNaN(a) \/ IsNaN(b) THEN FALSE
    ELSE IF IsFiniteNum(a) /\ IsFiniteNum(b) THEN a.n * b.d < b.n * a.d
    ELSE IF IsFiniteNum(a) THEN b.n > 0
    ELSE IF IsFiniteNum(b) THEN a.n < 0
    ELSE a.n < b.n

\* a === b
NumEq(a, b) ==
    IF a.d < 0 \/ b.d < 0 THEN a = b
    ELSE IF IsNaN(a) \/ IsNaN(b) THEN FALSE
    ELSE a = b

\* a <= b
NumLessEq(a, b) ==
    IF IsNaN(a) \/ IsNaN(b) THEN FALSE ELSE NumLess(a, b) \/ a = b

\* the truthiness of a number: 0, NaN and undefined are false
Truthy(a) == ~IsNaN(a) /\ a.n # 0

\* Math.floor of a finite number
NumFloor(a) == a.n \div a.d

\* ------------------------------------------------------------------------
\*                               Number <-> text
\* ------------------------------------------------------------------------

RECURSIVE NatToString(_)
NatToString(i) ==
    IF i < 10 THEN <<Digits[i + 1]>>
    ELSE Append(NatToString(i \div 10), Digits[(i % 10) + 1])

\* the first `k` digits after the decimal point of r / d, 0 <= r < d,
\* stopping when the expansion ends
RECURSIVE FracDigits(_, _, _)
FracDigits(r, d, k) ==
    IF r = 0 \/ k = 0 THEN <<>>
    ELSE <<Digits[((r * 10) \div d) + 1]>> \o FracDigits((r * 10) % d, d, k - 1)

\* Number.prototype.toString(): exact for integers and for numbers whose
\* decimal expansion ends within the 16 digits a double prints
NumToString(a) ==
    IF a.d < 0 THEN <<"undefined">>
    ELSE IF a.d = 0
         THEN (IF a.n = 0 THEN <<"N", "a", "N">>
               ELSE (IF a.n < 0 THEN <<"-">> ELSE <<>>)
                    \o <<"I", "n", "f", "i", "n", "i", "t", "y">>)
    ELSE LET sign == IF a.n < 0 THEN <<"-">> ELSE <<>>
             whole == Abs(a.n) \div a.d
             rest == Abs(a.n) % a.d
         IN  sign \o NatToString(whole)
             \o (IF rest = 0 THEN <<>> ELSE <<".">> \o FracDigits(rest, a.d, 16))

\* the run of digits of s that starts at index i (1-based)
RECURSIVE DigitRun(_, _)
DigitRun(s, i) ==
    IF i <= Len(s) /\ isDigit(s[i]) THEN <<s[i]>> \o DigitRun(s, i + 1) ELSE <<>>

RECURSIVE DigitsToNat(_)
DigitsToNat(ds) ==
    IF ds = <<>> THEN 0
    ELSE DigitsToNat(SubSeq(ds, 1, Len(ds) - 1)) * 10 + DigitValue(ds[Len(ds)])

RECURSIVE Pow10(_)
Pow10(k) == IF k = 0 THEN 1 ELSE 10 * Pow10(k - 1)

\* a parseFloat that reads the digits and leaves the sign out
parseFloatUnsigned(s) ==
    LET from == IF Len(s) > 0 /\ s[1] \in {"+", "-"} THEN 2 ELSE 1
        Read(whole) == IF whole = <<>> THEN NaN ELSE Int2Num(DigitsToNat(whole))
    IN  Read(DigitRun(s, from))

\* parseFloat(s) for a text s made of an optional sign, digits and dots:
\* the longest prefix sign digits [. digits] is read, NaN when it has no digit
parseFloat(s) ==
    LET signed == Len(s) > 0 /\ s[1] \in {"+", "-"}
        from == IF signed THEN 2 ELSE 1
        whole == DigitRun(s, from)
        dotAt == from + Len(whole)
        frac == IF dotAt <= Len(s) /\ s[dotAt] = "." THEN DigitRun(s, dotAt + 1) ELSE <<>>
        mag == Ratio(DigitsToNat(whole \o frac), Pow10(Len(frac)))
    IN  IF whole = <<>> /\ frac = <<>> THEN NaN
        ELSE IF signed /\ s[1] = "-" THEN NumNeg(mag) ELSE mag

\* ------------------------------------------------------------------------
\*                               Error Handling
\* ------------------------------------------------------------------------

\* no error raised
NoError == [via |-> "", msg |-> "", expr |-> FALSE, token |-> FALSE]

\* throwI8n(Msgs.ExpHasErrors, { e: p.expr, err: msg }): the evaluation is
\* abandoned; the error holds the expression text
throwI8n(msg) == [via |-> "throwI8n", msg |-> msg, expr |-> TRUE, token |-> FALSE]

\* throwErr(msg): the evaluation is abandoned; the error holds msg only
throwErr(msg) == [via |-> "throwErr", msg |-> msg, expr |-> FALSE, token |-> FALSE]

\* Throws a localized error: err(p, msg, value) gives throwI8n p.expr and msg,
\* and leaves out value, the token it is called with
err(msg) == throwI8n(msg)

Raised(e) == e.via # ""

\* ------------------------------------------------------------------------
\*                               Tokens
\* ------------------------------------------------------------------------

\* enum TokenType, in declaration order
TokenTypes == <<"None", "Function", "ArrayOpen", "ArrayClose", "Comma", "ParamOpen",
                "ParamClose", "Value", "Plus", "Minus", "Multiply", "Divide", "Mod",
                "Equal", "Different", "Lesser", "Greater", "LessEqual", "GreaterEqual",
                "LogicalAnd", "LogicalOr", "LogicalNot">>

TokenIndex(tkType) == CHOOSE i \in 1..Len(TokenTypes) : TokenTypes[i] = tkType

\* List of operator precedence, indexed by TokenType
opPriorityTable == <<0, 19, 19, 19, 19, 20, 20, 1, 13, 13, 14, 14, 14,
                     10, 10, 11, 11, 11, 11, 6, 5, 16>>

opPriority(tkType) == opPriorityTable[TokenIndex(tkType)]

Type2ClassTable == <<"None", "Function", "ArrayOpen", "ArrayClose", "Comma", "ParamOpen",
                     "ParamClose", "Value", "Unary", "Unary", "Binary", "Binary", "Binary",
                     "Binary", "Binary", "Binary", "Binary", "Binary", "Binary",
                     "Binary", "Binary", "LogicalUnary">>

Type2Class(tkType) == Type2ClassTable[TokenIndex(tkType)]

\* enum Str2TokenType: the token type of a symbol, "None" when it has none
Str2TokenType(sym) ==
    CASE sym = <<"[">> -> "ArrayOpen"
      [] sym = <<"]">> -> "ArrayClose"
      [] sym = <<"(">> -> "ParamOpen"
      [] sym = <<")">> -> "ParamClose"
      [] sym = <<"+">> -> "Plus"
      [] sym = <<"-">> -> "Minus"
      [] sym = <<"*">> -> "Multiply"
      [] sym = <<"/">> -> "Divide"
      [] sym = <<"%">> -> "Mod"
      [] sym = <<",">> -> "Comma"
      [] sym = <<"=", "=">> -> "Equal"
      [] sym = <<"!", "=">> -> "Different"
      [] sym = <<"<">> -> "Lesser"
      [] sym = <<">">> -> "Greater"
      [] sym = <<"<", "=">> -> "LessEqual"
      [] sym = <<">", "=">> -> "GreaterEqual"
      [] OTHER -> "None"

\* a text that is `undefined`; concatenated, it reads "undefined"
undefinedStr == <<"undefined">>

\* interface Token: tkClass is Type2Class(tkType) and canBinOp is derived
\* from it in every assignment of the source, so both are operators here.
\* arrayRef names the variable whose array the token shares (<<>> when the
\* token owns arrayValue).
Token == [tkType |-> "None", paType |-> "Undefined", sValue |-> undefinedStr,
          numValue |-> undefinedNum, arrayValue |-> <<>>, arrayRef |-> <<>>,
          funcParams |-> <<>>]

tkClass(tk) == Type2Class(tk.tkType)

canBinOp(tk) == tkClass(tk) = "Unary" \/ tkClass(tk) = "Binary"

\* the array a token carries: the variable's own array when it shares one
ArrayOf(tk, vars) == IF tk.arrayRef # <<>> THEN vars[tk.arrayRef].arr ELSE tk.arrayValue

\* ------------------------------------------------------------------------
\*                               Variable context
\* ------------------------------------------------------------------------

\* the values args.vars may hold, tagged with their typeof
NumberVar(x) == [typeOf |-> "number", num |-> x, str |-> <<>>, arr |-> <<>>, bool |-> FALSE]
StringVar(s) == [typeOf |-> "string", num |-> undefinedNum, str |-> s, arr |-> <<>>, bool |-> FALSE]
ArrayVar(a) == [typeOf |-> "object", num |-> undefinedNum, str |-> <<>>, arr |-> a, bool |-> FALSE]
BooleanVar(b) == [typeOf |-> "boolean", num |-> undefinedNum, str |-> <<>>, arr |-> <<>>, bool |-> b]

\* ------------------------------------------------------------------------
\*                               parser
\* ------------------------------------------------------------------------

\* while (ch === ' ') ch = expr[++pos]
RECURSIVE SkipSpaces(_, _)
SkipSpaces(expr, pos) == IF Ch(expr, pos) = " " THEN SkipSpaces(expr, pos + 1) ELSE pos

\* a scan of a name that takes the spaces in and after it as part of it
RECURSIVE ScanNameAndSpaces(_, _)
ScanNameAndSpaces(expr, pos) ==
    LET nextCh == Ch(expr, pos + 1)
    IN  IF nextCh = EOF \/ ~(isCharacterOrNum(nextCh) \/ nextCh = " ") THEN pos + 1
        ELSE ScanNameAndSpaces(expr, pos + 1)

\* the position after the letters and digits of the name that starts at pos
RECURSIVE ScanName(_, _)
ScanName(expr, pos) ==
    LET nextCh == Ch(expr, pos + 1)
    IN  IF nextCh = EOF \/ ~isCharacterOrNum(nextCh) THEN pos + 1 ELSE ScanName(expr, pos + 1)

\* a scan of a number that reads no character
ScanNumberStuck(expr, pos) == pos

\* the position after the digits and dots of the number whose digit is at pos
RECURSIVE ScanNumber(_, _)
ScanNumber(expr, pos) ==
    LET ch == Ch(expr, pos + 1)
    IN  IF ch # EOF /\ (isDigit(ch) \/ ch = ".") THEN ScanNumber(expr, pos + 1) ELSE pos + 1

\* a scan of a string that stops at the first quote, escaped or not
RECURSIVE ScanStringToQuote(_, _, _)
ScanStringToQuote(expr, pos, prevCh) ==
    LET ch == Ch(expr, pos + 1)
    IN  IF ch # "'" /\ ch # EOF THEN ScanStringToQuote(expr, pos + 1, ch) ELSE pos + 1

\* the position of the quote that closes the string opened at pos, or of the
\* end of the text; prevCh is the character at pos
RECURSIVE ScanString(_, _, _)
ScanString(expr, pos, prevCh) ==
    LET ch == Ch(expr, pos + 1)
    IN  IF (ch # "'" \/ prevCh = "\\") /\ ch # EOF
        THEN ScanString(expr, pos + 1, ch) ELSE pos + 1

\* sValue.replace(/\\([n'])/g, ...)
RECURSIVE Unescape(_)
Unescape(s) ==
    IF s = <<>> THEN <<>>
    ELSE IF Len(s) >= 2 /\ s[1] = "\\" /\ s[2] \in {"n", "'"}
         THEN <<(IF s[2] = "n" THEN "\n" ELSE "'")>> \o Unescape(SubSeq(s, 3, Len(s)))
    ELSE <<s[1]>> \o Unescape(Tail(s))

NamedOperators == << <<"n", "o", "t">>, <<"a", "n", "d">>, <<"o", "r">> >>

\* every boolean is read as 1
BoolToNumOne(b) == Int2Num(1)

\* (varValue as boolean) ? 1 : 0
BoolToNum(b) == Int2Num(IF b THEN 1 ELSE 0)

\* the value token of the variable varName; err is set when it is undefined
\* or of an unsupported type
VarToken(varName, vars) ==
    IF varName \notin DOMAIN vars
    THEN [token |-> [Token EXCEPT !.tkType = "Value", !.sValue = varName],
          err |-> err("Unknown variable")]
    ELSE LET varValue == vars[varName]
             base == [Token EXCEPT !.tkType = "Value", !.sValue = varName]
         IN  CASE varValue.typeOf = "string" ->
                    [token |-> [base EXCEPT !.paType = "String", !.sValue = varValue.str],
                     err |-> NoError]
               [] varValue.typeOf = "number" ->
                    [token |-> [base EXCEPT !.paType = "Number", !.numValue = varValue.num,
                                            !.sValue = undefinedStr],
                     err |-> NoError]
               [] varValue.typeOf = "object" ->
                    [token |-> [base EXCEPT !.paType = "Array", !.arrayRef = varName,
                                            !.sValue = undefinedStr],
                     err |-> NoError]
               [] varValue.typeOf = "boolean" ->
                    [token |-> [base EXCEPT !.paType = "Number",
                                            !.numValue = BoolToNum(varValue.bool),
                                            !.sValue = undefinedStr],
                     err |-> NoError]
               [] OTHER -> [token |-> base, err |-> err("Unsupported type")]

\* parser(p, checkSign): the token that starts at or after pos, the position
\* after it, and the error raised, if any.  tkType "None" is end of input.
parser(expr, pos0, checkSign, vars) ==
    LET startPos == SkipSpaces(expr, pos0)
        ch == Ch(expr, startPos)
    IN  IF ch = EOF THEN [token |-> Token, pos |-> startPos, err |-> NoError]
        ELSE IF isCharacter(ch)
        THEN \* vars, functions, named operators
             LET pos == ScanName(expr, startPos)
                 name == Substring(expr, startPos, pos)
             IN  IF Ch(expr, pos) = "("
                 THEN IF name = <<"n", "o", "t">>
                      THEN [token |-> [Token EXCEPT !.tkType = "LogicalNot", !.sValue = name],
                            pos |-> pos, err |-> NoError]
                      ELSE [token |-> [Token EXCEPT !.tkType = "Function", !.sValue = name],
                            pos |-> pos + 1, err |-> NoError]
                 ELSE IF \E i \in 1..3 : NamedOperators[i] = name
                 THEN LET opNameIndex == CHOOSE i \in 1..3 : NamedOperators[i] = name
                      IN  [token |-> [Token EXCEPT
                                        !.tkType = <<"LogicalNot", "LogicalAnd", "LogicalOr">>[opNameIndex],
                                        !.sValue = name],
                           pos |-> pos, err |-> NoError]
                 ELSE LET v == VarToken(name, vars)
                      IN  [token |-> v.token, pos |-> pos, err |-> v.err]
        ELSE LET \* number sign
                 signed == checkSign /\ (ch = "-" \/ ch = "+") /\ isDigit(Ch(expr, startPos + 1))
                 numPos == IF signed THEN startPos + 1 ELSE startPos
                 numCh == Ch(expr, numPos)
             IN  IF isDigit(numCh)
                 THEN \* numbers
                      LET pos == ScanNumber(expr, numPos)
                      IN  [token |-> [Token EXCEPT !.tkType = "Value", !.paType = "Number",
                                        !.numValue = parseFloat(Substring(expr, startPos, pos))],
                           pos |-> pos, err |-> NoError]
                 ELSE IF ch = "'"
                 THEN \* strings
                      LET pos == ScanString(expr, startPos, ch)
                      IN  [token |-> [Token EXCEPT !.tkType = "Value", !.paType = "String",
                                        !.sValue = Unescape(Substring(expr, startPos + 1, pos))],
                           pos |-> pos + 1, err |-> NoError]
                 ELSE \* equality and comparison, symbols
                      LET two == ch \in {"=", "!", "<", ">"} /\ Ch(expr, startPos + 1) = "="
                          sym == IF two THEN <<ch, "=">> ELSE <<ch>>
                          pos == IF two THEN startPos + 1 ELSE startPos
                          type == Str2TokenType(sym)
                      IN  IF type = "None"
                          THEN [token |-> Token, pos |-> pos, err |-> err("Unknown token")]
                          ELSE [token |-> [Token EXCEPT !.tkType = type,
                                             !.sValue = Substring(expr, startPos, pos + 1)],
                                pos |-> pos + 1, err |-> NoError]

\* ------------------------------------------------------------------------
\*                               Tools
\* ------------------------------------------------------------------------

\* Compares operators priority.
_comparePriority(op1, op2) == opPriority(op1.tkType) >= opPriority(op2.tkType)

\* stack[i], i counted from 0
At(stack, i) == stack[i + 1]

\* stack.length - 1
StackLast(stack) == Len(stack) - 1

\* ------------------------------------------------------------------------
\*                               Compute
\* ------------------------------------------------------------------------

\* Computes unary operators: the operand after the operator is applied.
_calcUnary(op, value) ==
    IF value.paType # "Number"
    THEN [value |-> value, err |-> err("UnaryErr")]
    ELSE [value |-> IF op.tkType = "Minus"
                    THEN [value EXCEPT !.numValue = NumNeg(value.numValue)]
                    ELSE IF op.tkType = "LogicalNot"
                    THEN [value EXCEPT !.numValue =
                              Int2Num(IF Truthy(value.numValue) THEN 0 ELSE 1)]
                    ELSE value,
          err |-> NoError]

\* the arrow function each arithmetic case hands to execOp
ArithOp(tkType, a, b) ==
    CASE tkType = "Plus" -> NumAdd(a, b)
      [] tkType = "Minus" -> NumSub(a, b)
      [] tkType = "Multiply" -> NumMul(a, b)
      [] tkType = "Divide" -> NumDiv(a, b)
      [] tkType = "Mod" -> NumMod(a, b)

\* a comparison that takes <= for < and >= for >
CompareHoldsStrict(tkType, a, b) ==
    CASE tkType = "Equal" -> NumEq(a, b)
      [] tkType = "Different" -> ~NumEq(a, b)
      [] tkType = "Lesser" -> NumLess(a, b)
      [] tkType = "Greater" -> NumLess(b, a)
      [] tkType = "LessEqual" -> NumLess(a, b)
      [] tkType = "GreaterEqual" -> NumLess(b, a)

\* the relation an equality or comparison case tests
CompareHolds(tkType, a, b) ==
    CASE tkType = "Equal" -> NumEq(a, b)
      [] tkType = "Different" -> ~NumEq(a, b)
      [] tkType = "Lesser" -> NumLess(a, b)
      [] tkType = "Greater" -> NumLess(b, a)
      [] tkType = "LessEqual" -> NumLessEq(a, b)
      [] tkType = "GreaterEqual" -> NumLessEq(b, a)

\* `and` written with || and `or` with &&
LogicalHoldsSwapped(tkType, a, b) ==
    CASE tkType = "LogicalAnd" -> Truthy(a) \/ Truthy(b)
      [] tkType = "LogicalOr" -> Truthy(a) /\ Truthy(b)

\* the condition the cases LogicalAnd and LogicalOr test
LogicalHolds(tkType, a, b) ==
    CASE tkType = "LogicalAnd" -> Truthy(a) /\ Truthy(b)
      [] tkType = "LogicalOr" -> Truthy(a) \/ Truthy(b)

LogicalTypes == {"LogicalAnd", "LogicalOr"}

\* the 0 / 1 a comparison or logical case assigns to v
LogicOp(tkType, a, b) ==
    Int2Num(IF (IF tkType \in LogicalTypes THEN LogicalHolds(tkType, a, b)
                ELSE CompareHolds(tkType, a, b))
            THEN 1 ELSE 0)

ArithTypes == {"Plus", "Minus", "Multiply", "Divide", "Mod"}

\* array[index], undefined past the end of the array
Elem(array, index) == IF index \in 1..Len(array) THEN array[index] ELSE undefinedNum

\* the lengths of the arrays are not compared
SameLengthAlways(a1, a2) == TRUE

\* value1.arrayValue.length === value2.arrayValue.length
SameLength(a1, a2) == Len(a1) = Len(a2)

\* every element is combined with the first element of value2
ElementWiseFirst(tkType, a1, a2) == [index \in 1..Len(a1) |-> ArithOp(tkType, a1[index], Elem(a2, 1))]

\* value1.arrayValue.forEach(...): the array value1 holds after it
ElementWise(tkType, a1, a2) == [index \in 1..Len(a1) |-> ArithOp(tkType, a1[index], Elem(a2, index))]

\* execOp(f, allowOther): done is the boolean execOp returns, value1 and vars
\* hold what it wrote (an array is written in place, into the variable
\* context when value1 shares a variable's array), v is the local v.
execOp(tkType, allowOther, value1, value2, vars) ==
    LET is1stArray == value1.paType = "Array"
        is2ndArray == value2.paType = "Array"
        AnyNotNumber == value1.paType # "Number" \/ value2.paType # "Number"
        a1 == ArrayOf(value1, vars)
        a2 == ArrayOf(value2, vars)
        same == [value1 |-> value1, vars |-> vars, v |-> undefinedNum,
                 done |-> TRUE, err |-> NoError]
    IN  IF is1stArray \/ is2ndArray
        THEN IF ~is1stArray \/ ~is2ndArray
             THEN [same EXCEPT !.err = throwErr("Can only add 2 arrays")]
             ELSE IF ~SameLength(a1, a2)
             THEN [same EXCEPT !.err = throwErr("Both arrays must have the same value")]
             ELSE IF value1.arrayRef # <<>>
                  THEN [same EXCEPT !.vars = [vars EXCEPT ![value1.arrayRef].arr =
                                                 ElementWise(tkType, a1, a2)]]
                  ELSE [same EXCEPT !.value1 = [value1 EXCEPT !.arrayValue =
                                                   ElementWise(tkType, a1, a2)]]
        ELSE IF AnyNotNumber
             THEN IF allowOther
                  THEN [same EXCEPT !.done = FALSE]
                  ELSE [same EXCEPT !.err = err("This op only supports numbers")]
             ELSE [same EXCEPT !.v = ArithOp(tkType, value1.numValue, value2.numValue)]

\* the text of a number is taken from sValue too
ConcatTextOfString(value) == value.sValue

\* the text an operand of the concatenating `+` contributes
ConcatText(value) ==
    IF value.paType = "Number" THEN NumToString(value.numValue) ELSE value.sValue

\* Computes binary operators: value1 after the operator is applied to
\* value1 and value2, and the variable context after it.
_calcBinary(op, value1, value2, vars) ==
    LET AnyNotNumber == value1.paType # "Number" \/ value2.paType # "Number"
        Executed(r) ==
            IF Raised(r.err) THEN [value1 |-> value1, vars |-> vars, err |-> r.err]
            ELSE IF ~r.done
            THEN [value1 |-> [value1 EXCEPT
                                !.sValue = ConcatText(value1) \o ConcatText(value2),
                                !.paType = "String"],
                  vars |-> vars, err |-> NoError]
            ELSE [value1 |-> [r.value1 EXCEPT !.numValue = r.v],
                  vars |-> r.vars, err |-> NoError]
    IN  IF op.tkType \in ArithTypes
        THEN Executed(execOp(op.tkType, op.tkType = "Plus", value1, value2, vars))
        ELSE IF op.tkType \in {"Equal", "Different", "Lesser", "Greater", "LessEqual",
                               "GreaterEqual", "LogicalAnd", "LogicalOr"}
        THEN IF AnyNotNumber
             THEN [value1 |-> value1, vars |-> vars,
                   err |-> err("This op only supports numbers")]
             ELSE [value1 |-> [value1 EXCEPT !.numValue =
                                  LogicOp(op.tkType, value1.numValue, value2.numValue)],
                   vars |-> vars, err |-> NoError]
        ELSE [value1 |-> [value1 EXCEPT !.numValue = undefinedNum],
              vars |-> vars, err |-> NoError]

\* ------------------------------------------------------------------------
\*                               Functions
\* ------------------------------------------------------------------------

\* the count is tested with paramCount > 0
_checkFuncParamsPositive(params, paramCount, paramTypes) ==
    IF paramCount > 0 /\ Len(params) # paramCount
    THEN err("WrongNrParams")
    ELSE IF \E index \in 1..Len(paramTypes) :
                \/ index > Len(params)
                \/ (params[index].paType # paramTypes[index] /\ paramTypes[index] # "Any")
         THEN err("WrongParamType")
         ELSE NoError

\* Checks if the function parameter count matches the parameters expected,
\* and if their types match the expected: the error raised, if any.
_checkFuncParams(params, paramCount, paramTypes) ==
    IF paramCount >= 0 /\ Len(params) # paramCount
    THEN err("WrongNrParams")
    ELSE IF \E index \in 1..Len(paramTypes) :
                \/ index > Len(params)
                \/ (params[index].paType # paramTypes[index] /\ paramTypes[index] # "Any")
         THEN err("WrongParamType")
         ELSE NoError

\* Math.round
MathRound(x) == IF IsFiniteNum(x) THEN Int2Num(NumFloor(NumAdd(x, Ratio(1, 2)))) ELSE x

\* Math.ceil
MathCeil(x) == IF IsFiniteNum(x) THEN Int2Num(-NumFloor(NumNeg(x))) ELSE x

\* the value token a function writes into p.res
ResToken == [Token EXCEPT !.tkType = "Value"]

FuncNames ==
    [round |-> <<"r", "o", "u", "n", "d">>, ceil |-> <<"c", "e", "i", "l">>,
     iff |-> <<"i", "f", "f">>]

\* the functions of the registry the model holds
_exFunctions == {FuncNames.round, FuncNames.ceil, FuncNames.iff}

\* round(x), ceil(x): one numeric parameter, a numeric result
ExFuncNumeric(funcName, params) ==
    LET e == _checkFuncParams(params, 1, <<"Number">>)
    IN  IF Raised(e) THEN [token |-> ResToken, err |-> e]
        ELSE [token |-> [ResToken EXCEPT !.paType = "Number", !.numValue =
                            IF funcName = FuncNames.round THEN MathRound(params[1].numValue)
                            ELSE MathCeil(params[1].numValue)],
              err |-> NoError]

\* iff(cond, a, b): a when cond is not zero, b otherwise
ExFuncIff(params) ==
    LET e == _checkFuncParams(params, 3, <<"Number", "Any", "Any">>)
    IN  IF Raised(e) THEN [token |-> ResToken, err |-> e]
        ELSE LET res == params[IF Truthy(params[1].numValue) THEN 2 ELSE 3]
             IN  [token |-> [ResToken EXCEPT !.paType = res.paType, !.sValue = res.sValue,
                                !.numValue = res.numValue, !.arrayValue = res.arrayValue,
                                !.arrayRef = res.arrayRef],
                  err |-> NoError]

\* a call that gives an empty value when the name is not registered
_execExprFunctionUnchecked(funcToken) ==
    IF funcToken.sValue \notin _exFunctions
    THEN [token |-> ResToken, err |-> NoError]
    ELSE IF funcToken.sValue = FuncNames.iff THEN ExFuncIff(funcToken.funcParams)
    ELSE ExFuncNumeric(funcToken.sValue, funcToken.funcParams)

\* a call whose function is not invoked: the value 0 stands for its result
_execExprFunctionSkipped(funcToken) ==
    [token |-> [ResToken EXCEPT !.paType = "Number", !.numValue = Int2Num(0)],
     err |-> NoError]

\* _execExprFunction(p, funcToken): the result token of the call
_execExprFunction(funcToken) ==
    LET funcName == funcToken.sValue
    IN  IF funcName \notin _exFunctions
        THEN [token |-> ResToken, err |-> err("Unknown function")]
        ELSE IF funcName = FuncNames.iff THEN ExFuncIff(funcToken.funcParams)
        ELSE ExFuncNumeric(funcName, funcToken.funcParams)

\* _execArray(p, funcToken): the array of the numValue of each parameter
_execArray(funcToken) ==
    [ResToken EXCEPT !.paType = "Array",
                     !.arrayValue = [i \in 1..Len(funcToken.funcParams) |->
                                        funcToken.funcParams[i].numValue]]

\* ------------------------------------------------------------------------
\*                               State Machine
\* ------------------------------------------------------------------------

\* The helpers below work on a record m that holds what one iteration of
\* the main loop reads and writes: stack, state, startPoint, startPoints,
\* vars, calls (the function calls made so far) and err (the error raised).

\* calcStackLeft(): reduces, from the start point on and from left to right,
\* every `value operator value` on the stack
RECURSIVE calcStackLeft(_)
calcStackLeft(m) ==
    LET stackLast == StackLast(m.stack)
        sp == m.startPoint
    IN  IF Raised(m.err) \/ ~(stackLast > 1 /\ stackLast > sp + 1) THEN m
        ELSE LET op == At(m.stack, sp + 1)
             IN  IF ~canBinOp(op) THEN m
                 ELSE LET Spliced(r) ==
                              IF Raised(r.err) THEN [m EXCEPT !.err = r.err, !.vars = r.vars]
                              ELSE calcStackLeft(
                                     [m EXCEPT !.stack = SubSeq(m.stack, 1, sp) \o <<r.value1>>
                                                   \o SubSeq(m.stack, sp + 4, Len(m.stack)),
                                               !.vars = r.vars])
                      IN  Spliced(_calcBinary(op, At(m.stack, sp), At(m.stack, sp + 2), m.vars))

\* calcStackRight(): reduces the `value operator value` on top of the stack
\* while its operator has at least the priority of the token before it
RECURSIVE calcStackRight(_)
calcStackRight(m) ==
    LET stackLast == StackLast(m.stack)
    IN  IF Raised(m.err) \/ ~(stackLast > 2) THEN m
        ELSE LET op == At(m.stack, stackLast - 1)
                 prevOp == At(m.stack, stackLast - 3)
             IN  IF ~canBinOp(op) \/ ~_comparePriority(op, prevOp) THEN m
                 ELSE LET Cut(r) ==
                              IF Raised(r.err) THEN [m EXCEPT !.err = r.err, !.vars = r.vars]
                              ELSE calcStackRight(
                                     [m EXCEPT !.stack = SubSeq(m.stack, 1, stackLast - 2)
                                                   \o <<r.value1>>,
                                               !.vars = r.vars])
                      IN  Cut(_calcBinary(op, At(m.stack, stackLast - 2),
                                          At(m.stack, stackLast), m.vars))

\* onCloseParamOrArrayOrFunc(): token is the value popped
onCloseParamOrArrayOrFunc(m) ==
    LET Pop(l) ==
            IF Raised(l.err) THEN [m |-> l, token |-> Token]
            ELSE IF l.startPoint # StackLast(l.stack)
            THEN [m |-> [l EXCEPT !.err = err("")], token |-> Token]
            ELSE [m |-> [l EXCEPT !.stack = SubSeq(l.stack, 1, Len(l.stack) - 1)],
                  token |-> l.stack[Len(l.stack)]]
    IN  Pop(calcStackLeft(m))

\* case TokenClass.Value
OnValue(m, token) ==
    LET stackLast == StackLast(m.stack)
        unary == /\ m.state = "NoUnary"
                 /\ tkClass(At(m.stack, stackLast)) \in {"Unary", "LogicalUnary"}
                 /\ (stackLast = 0 \/ tkClass(At(m.stack, stackLast - 1)) # "Value")
    IN  IF m.state = "Binary" THEN [m EXCEPT !.err = err("")]
        ELSE IF unary
        THEN LET Applied(u) ==
                     IF Raised(u.err) THEN [m EXCEPT !.err = u.err]
                     ELSE calcStackRight([m EXCEPT !.state = "Binary",
                              !.stack = Append(SubSeq(m.stack, 1, stackLast), u.value)])
             IN  Applied(_calcUnary(At(m.stack, stackLast), token))
        ELSE calcStackRight([m EXCEPT !.state = "Binary", !.stack = Append(m.stack, token)])

\* an opening token pushed whatever the state
OnOpenInAnyState(m, token) ==
    [m EXCEPT !.stack = Append(m.stack, token),
              !.startPoint = Len(m.stack) + 1,
              !.startPoints = Append(m.startPoints, Len(m.stack) + 1),
              !.state = "IdAndUnary"]

\* case TokenClass.ArrayOpen, Function, ParamOpen
OnOpen(m, token) ==
    IF m.state = "Binary" THEN [m EXCEPT !.err = err("")]
    ELSE [m EXCEPT !.stack = Append(m.stack, token),
                   !.startPoint = Len(m.stack) + 1,
                   !.startPoints = Append(m.startPoints, Len(m.stack) + 1),
                   !.state = "IdAndUnary"]

\* startPoints.pop() alone: startPoint keeps the index of the group closed
PopStartPointOnly(m) ==
    [m EXCEPT !.startPoints = SubSeq(m.startPoints, 1, Len(m.startPoints) - 1)]

\* startPoints.pop(), and no group taken as open any more
PopStartPointToZero(m) ==
    [m EXCEPT !.startPoints = SubSeq(m.startPoints, 1, Len(m.startPoints) - 1),
              !.startPoint = 0]

\* startPoints.pop(); startPoint = startPoints[startPoints.length - 1] || 0
PopStartPoint(m) ==
    LET rest == SubSeq(m.startPoints, 1, Len(m.startPoints) - 1)
    IN  [m EXCEPT !.startPoints = rest,
                  !.startPoint = IF rest = <<>> THEN 0 ELSE rest[Len(rest)]]

\* the parameter dropped instead of pushed
PushParamDropped(m, at, token) == m

\* the parameter put in front of those the owner already holds
PushParamFront(m, at, token) ==
    [m EXCEPT !.stack[at + 1].funcParams = <<token>> \o @]

\* funcToken.funcParams.push(token), funcToken being stack[at]
PushParam(m, at, token) ==
    [m EXCEPT !.stack[at + 1].funcParams = Append(@, token)]

\* case TokenClass.Comma, ParamClose, ArrayClose
OnCloseOrComma(m, thisTkClass) ==
    IF m.startPoint = 0 THEN [m EXCEPT !.err = err("Missing starting parenthesis")]
    ELSE
    LET at == m.startPoint - 1
        funcToken == At(m.stack, at)
        isTokenComma == thisTkClass = "Comma"
        isFunc == tkClass(funcToken) = "Function"
        isArray == tkClass(funcToken) = "ArrayOpen"
        \* the last parameter, if any, is pushed
        LastParam(o) == IF Raised(o.m.err) THEN o.m ELSE PushParam(o.m, at, o.token)
        \* the function c.stack[at] is called, x is what _execExprFunction gave
        Called(c, closed, x) ==
            IF closed.sValue \notin _exFunctions THEN [c EXCEPT !.err = x.err]
            ELSE IF Raised(x.err)
            THEN [c EXCEPT !.err = x.err,
                           !.calls = Append(@, [name |-> closed.sValue,
                                                args |-> closed.funcParams])]
            ELSE PopStartPoint([c EXCEPT !.stack[at + 1] = x.token,
                                         !.state = "Binary",
                                         !.calls = Append(@, [name |-> closed.sValue,
                                                              args |-> closed.funcParams])])
        Closed(c) ==
            IF Raised(c.err) THEN c
            ELSE IF isFunc
            THEN Called(c, At(c.stack, at), _execExprFunction(At(c.stack, at)))
            ELSE PopStartPoint([c EXCEPT !.stack[at + 1] = _execArray(At(c.stack, at)),
                                         !.state = "Binary"])
        Grouped(o) ==
            IF Raised(o.m.err) THEN o.m
            ELSE IF ~isTokenComma
            THEN PopStartPoint([o.m EXCEPT !.stack[StackLast(o.m.stack) + 1] = o.token,
                                           !.state = "Binary"])
            ELSE [PushParam(o.m, at, o.token) EXCEPT !.state = "IdAndUnary"]
    IN  IF isTokenComma /\ ~isFunc /\ ~isArray THEN [m EXCEPT !.err = err("Missing function")]
        ELSE IF (isFunc \/ isArray) /\ ~isTokenComma
        THEN \* function code
             Closed(IF m.startPoint # StackLast(m.stack) + 1
                    THEN LastParam(onCloseParamOrArrayOrFunc(m))
                    ELSE m)
        ELSE \* not a function
             Grouped(onCloseParamOrArrayOrFunc(m))

\* the operator pushed with no reduction of what is on its left
OnBinaryPushOnly(m, token) ==
    IF m.state # "Binary" THEN [m EXCEPT !.err = err("")]
    ELSE [m EXCEPT !.state = "NoUnary", !.stack = Append(m.stack, token)]

\* case TokenClass.Binary, and the unary cases that flow to it
OnBinary(m, token) ==
    LET stackLast == StackLast(m.stack)
        reduce == /\ stackLast > 0
                  /\ tkClass(At(m.stack, stackLast)) = "Value"
                  /\ canBinOp(At(m.stack, stackLast - 1))
                  /\ _comparePriority(At(m.stack, stackLast - 1), token)
        Pushed(l) ==
            IF Raised(l.err) THEN l
            ELSE [l EXCEPT !.state = "NoUnary", !.stack = Append(l.stack, token)]
    IN  IF m.state # "Binary" THEN [m EXCEPT !.err = err("")]
        ELSE Pushed(IF reduce THEN calcStackLeft(m) ELSE m)

\* case TokenClass.LogicalUnary, Unary
OnUnary(m, token) ==
    IF m.state = "IdAndUnary"
    THEN [m EXCEPT !.state = IF tkClass(token) = "Unary" THEN "NoUnary" ELSE @,
                   !.stack = Append(m.stack, token)]
    ELSE OnBinary(m, token)

\* the switch on the class of the token read
OnToken(m, token) ==
    LET thisTkClass == tkClass(token)
    IN  CASE thisTkClass = "Value" -> OnValue(m, token)
          [] thisTkClass \in {"ArrayOpen", "Function", "ParamOpen"} -> OnOpen(m, token)
          [] thisTkClass \in {"Comma", "ParamClose", "ArrayClose"} ->
                OnCloseOrComma(m, thisTkClass)
          [] thisTkClass \in {"LogicalUnary", "Unary"} -> OnUnary(m, token)
          [] thisTkClass = "Binary" -> OnBinary(m, token)

\* _valueOfToken(token)
_valueOfToken(token, vars) ==
    IF token.paType = "String"
    THEN [typeOf |-> "string", str |-> token.sValue, num |-> undefinedNum, arr |-> <<>>]
    ELSE IF token.paType = "Array"
    THEN [typeOf |-> "object", str |-> <<>>, num |-> undefinedNum, arr |-> ArrayOf(token, vars)]
    ELSE [typeOf |-> IF token.numValue = undefinedNum THEN "undefined" ELSE "number",
          str |-> <<>>, num |-> token.numValue, arr |-> <<>>]

\* what calcExpr has not returned
NoResult == [typeOf |-> "none", str |-> <<>>, num |-> undefinedNum, arr |-> <<>>]

\* the end of _stateMachine without the test of the class of the token left
OnEndOfAnyClass(m) ==
    LET Reduced(l) ==
            IF Raised(l.err) THEN l
            ELSE IF Len(l.stack) # 1 THEN [l EXCEPT !.err = err("Stack not empty")]
            ELSE l
    IN  Reduced(calcStackLeft(m))

\* the end of _stateMachine, after the main loop
OnEnd(m) ==
    LET Reduced(l) ==
            IF Raised(l.err) THEN l
            ELSE IF Len(l.stack) # 1 THEN [l EXCEPT !.err = err("Stack not empty")]
            ELSE IF tkClass(l.stack[Len(l.stack)]) # "Value"
            THEN [l EXCEPT !.err = err("Not a value")]
            ELSE l
    IN  Reduced(calcStackLeft(m))

\* ------------------------------------------------------------------------
\*                               Evaluation
\* ------------------------------------------------------------------------

VARIABLES
    expr,         \* p.expr: the text of the expression, its leading `=` included
    pos,          \* p.pos: the cursor of the lexer
    token,        \* p.token: the token the lexer read last
    stack,        \* the stack of tokens
    state,        \* the state of the machine: IdAndUnary, NoUnary, Binary
    startPoint,   \* the index of the first token of the innermost open group
    startPoints,  \* the start points of the open groups
    vars,         \* p.args.vars: the variable context
    calls,        \* the registered functions called so far, with their parameters
    status,       \* "run" in the main loop, "done" once returned, "error" once thrown
    error,        \* the error thrown
    result,       \* the value calcExpr returned
    prevPos,      \* the cursor before the token read last
    prevClass,    \* the class of the token read before the last
    src,          \* the lexemes the text of the expression is made of
    call,         \* the exported function called, with its arguments
    ret           \* what that function returned or threw

allVars == <<expr, pos, token, stack, state, startPoint, startPoints, vars, calls,
           status, error, result, prevPos, prevClass, src, call, ret>>

\* calcExpr(expr, args): the state _stateMachine starts from
calcExpr(e, v) ==
    /\ expr = e
    /\ vars = v
    /\ pos = 1
    /\ token = Token
    /\ stack = <<>>
    /\ state = "IdAndUnary"
    /\ startPoint = 0
    /\ startPoints = <<>>
    /\ calls = <<>>
    /\ status = "run"
    /\ error = NoError
    /\ result = NoResult
    /\ prevPos = 1
    /\ prevClass = "None"

\* the record the helpers of the state machine work on
Machine == [stack |-> stack, state |-> state, startPoint |-> startPoint,
            startPoints |-> startPoints, vars |-> vars, calls |-> calls, err |-> NoError]

\* a parser told to look for a sign before every token
CheckSignAlways(st) == TRUE

\* the checkSign the main loop hands to the parser: state !== States.Binary
CheckSign(st) == st # "Binary"

\* the token the next iteration of the main loop reads
Lexed == parser(expr, pos, CheckSign(state), vars)

\* the evaluation throws e
Throw(m) ==
    /\ status' = "error"
    /\ error' = m.err
    /\ vars' = m.vars
    /\ calls' = m.calls
    /\ UNCHANGED <<stack, state, startPoint, startPoints, result>>

\* one iteration of the main loop of _stateMachine: a token is read and handled
Step ==
    /\ status = "run"
    /\ LET Handled(m) ==
               IF Raised(m.err) THEN Throw(m)
               ELSE /\ stack' = m.stack
                    /\ state' = m.state
                    /\ startPoint' = m.startPoint
                    /\ startPoints' = m.startPoints
                    /\ vars' = m.vars
                    /\ calls' = m.calls
                    /\ UNCHANGED <<status, error, result>>
           Read(lexed) ==
               /\ (Raised(lexed.err) \/ tkClass(lexed.token) # "None")
               /\ token' = lexed.token
               /\ prevPos' = pos
               /\ prevClass' = tkClass(token)
               /\ UNCHANGED <<expr, src, call, ret>>
               /\ IF Raised(lexed.err)
                  THEN /\ Throw([Machine EXCEPT !.err = lexed.err])
                       /\ UNCHANGED pos
                  ELSE /\ pos' = lexed.pos
                       /\ Handled(OnToken(Machine, lexed.token))
       IN  Read(Lexed)

\* the lexer reached the end of the text: the stack is reduced and the value
\* of its only token is returned
Finish ==
    /\ status = "run"
    /\ LET Returned(m) ==
               IF Raised(m.err) THEN Throw(m)
               ELSE /\ stack' = m.stack
                    /\ vars' = m.vars
                    /\ status' = "done"
                    /\ result' = _valueOfToken(m.stack[1], m.vars)
                    /\ UNCHANGED <<state, startPoint, startPoints, calls, error>>
           Read(lexed) ==
               /\ ~Raised(lexed.err)
               /\ tkClass(lexed.token) = "None"
               /\ token' = lexed.token
               /\ pos' = lexed.pos
               /\ prevPos' = pos
               /\ prevClass' = tkClass(token)
               /\ UNCHANGED <<expr, src, call, ret>>
               /\ Returned(OnEnd(Machine))
       IN  Read(Lexed)

Next == Step \/ Finish

\* ------------------------------------------------------------------------
\*                               Expressions evaluated
\* ------------------------------------------------------------------------

\* the text made of the lexemes of ls, in order
RECURSIVE Flatten(_)
Flatten(ls) == IF ls = <<>> THEN <<>> ELSE Head(ls) \o Flatten(Tail(ls))

\* the expression whose lexemes are ls
ExprText(ls) == <<"=">> \o Flatten(ls)

\* the variable context of the evaluations
DefaultVars ==
    (<<"x">> :> NumberVar(Int2Num(3))) @@ (<<"t">> :> NumberVar(Ratio(1, 2)))
    @@ (<<"s">> :> StringVar(<<"a", "b">>)) @@ (<<"b">> :> BooleanVar(TRUE))
    @@ (<<"c">> :> BooleanVar(FALSE))
    @@ (<<"v">> :> ArrayVar(<<Int2Num(1), Int2Num(2)>>))

\* what a function that has not ended has returned
NoRet == [kind |-> "none", value |-> NoResult, msg |-> ""]

\* calcExpr is called with the expression made of the lexemes ls
Evaluate(ls, v) ==
    /\ src = ls
    /\ calcExpr(ExprText(ls), v)
    /\ call = [fn |-> "calcExpr"]
    /\ ret = NoRet

\* the binary operators as written, with the precedence level the
\* documentation gives them (a higher level binds tighter)
BinaryOperators ==
    << [lex |-> <<"*">>, tkType |-> "Multiply", level |-> 6],
       [lex |-> <<"/">>, tkType |-> "Divide", level |-> 6],
       [lex |-> <<"%">>, tkType |-> "Mod", level |-> 6],
       [lex |-> <<"+">>, tkType |-> "Plus", level |-> 5],
       [lex |-> <<"-">>, tkType |-> "Minus", level |-> 5],
       [lex |-> <<"<">>, tkType |-> "Lesser", level |-> 4],
       [lex |-> <<">">>, tkType |-> "Greater", level |-> 4],
       [lex |-> <<"<", "=">>, tkType |-> "LessEqual", level |-> 4],
       [lex |-> <<">", "=">>, tkType |-> "GreaterEqual", level |-> 4],
       [lex |-> <<"=", "=">>, tkType |-> "Equal", level |-> 3],
       [lex |-> <<"!", "=">>, tkType |-> "Different", level |-> 3],
       [lex |-> <<" ", "a", "n", "d", " ">>, tkType |-> "LogicalAnd", level |-> 2],
       [lex |-> <<" ", "o", "r", " ">>, tkType |-> "LogicalOr", level |-> 1] >>

OperatorLexemes == {BinaryOperators[i].lex : i \in 1..Len(BinaryOperators)}

OperatorOf(lex) ==
    BinaryOperators[CHOOSE i \in 1..Len(BinaryOperators) : BinaryOperators[i].lex = lex]

\* the lexemes that open a group: a parenthesis or a call of a function
OpenLexemes == {<<"(">>, FuncNames.round \o <<"(">>, FuncNames.ceil \o <<"(">>}

\* ------------------------------------------------------------------------
\*                               Reference evaluation
\* ------------------------------------------------------------------------

\* The value a sequence of lexemes denotes under the documented precedence:
\* the operator applied last is the rightmost of the operators of the
\* lowest level that lie outside every group.

\* the number of groups open before the i-th lexeme
RECURSIVE DepthAt(_, _)
DepthAt(ls, i) ==
    IF i <= 1 THEN 0
    ELSE DepthAt(ls, i - 1)
         + (IF ls[i - 1] \in OpenLexemes THEN 1 ELSE 0)
         - (IF ls[i] = <<")">> THEN 1 ELSE 0)

\* the value of a numeric literal written with digits and at most one dot
RefLiteral(lex) ==
    LET dot == IF \E i \in 1..Len(lex) : lex[i] = "."
               THEN CHOOSE i \in 1..Len(lex) : lex[i] = "." ELSE Len(lex) + 1
        digits == SubSeq(lex, 1, dot - 1) \o SubSeq(lex, dot + 1, Len(lex))
    IN  Ratio(DigitsToNat(digits), Pow10(Len(lex) - dot + (IF dot > Len(lex) THEN 1 ELSE 0)))

RefApply(tkType, a, b) ==
    IF tkType \in ArithTypes THEN ArithOp(tkType, a, b) ELSE LogicOp(tkType, a, b)

RECURSIVE RefEval(_)
RefEval(ls) ==
    LET ops == {i \in 1..Len(ls) : ls[i] \in OperatorLexemes /\ DepthAt(ls, i) = 0}
    IN  IF ops = {}
        THEN IF ls[1] \in OpenLexemes
             THEN LET inner == RefEval(SubSeq(ls, 2, Len(ls) - 1))
                  IN  IF ls[1] = FuncNames.round \o <<"(">> THEN MathRound(inner)
                      ELSE IF ls[1] = FuncNames.ceil \o <<"(">> THEN MathCeil(inner)
                      ELSE inner
             ELSE RefLiteral(ls[1])
        ELSE LET low == CHOOSE l \in {OperatorOf(ls[i]).level : i \in ops} :
                            \A i \in ops : OperatorOf(ls[i]).level >= l
                 at == CHOOSE i \in ops :
                            /\ OperatorOf(ls[i]).level = low
                            /\ \A j \in ops : OperatorOf(ls[j]).level = low => j <= i
             IN  RefApply(OperatorOf(ls[at]).tkType,
                          RefEval(SubSeq(ls, 1, at - 1)), RefEval(SubSeq(ls, at + 1, Len(ls))))

\* ------------------------------------------------------------------------
\*                               Arithmetic expressions
\* ------------------------------------------------------------------------

\* most binary operators of a generated arithmetic expression
MaxArithOps == 2

ArithLiterals == {<<"2">>, <<"3">>}

\* literal (operator literal)^k
RECURSIVE FlatExprs(_)
FlatExprs(k) ==
    IF k = 0 THEN {<<l>> : l \in ArithLiterals}
    ELSE {f \o <<o, l>> : f \in FlatExprs(k - 1), o \in OperatorLexemes, l \in ArithLiterals}

\* f with its operands i .. j put between parentheses
Parenthesised(f, i, j) ==
    SubSeq(f, 1, 2 * i - 2) \o <<<<"(">>>> \o SubSeq(f, 2 * i - 1, 2 * j - 1)
    \o <<<<")">>>> \o SubSeq(f, 2 * j, Len(f))

\* the well-formed expressions made of literals, binary operators and at
\* most one pair of parentheses and n operators
ArithExprs(n) ==
    UNION {FlatExprs(k) \cup
           UNION {{Parenthesised(f, i, j) : f \in FlatExprs(k), j \in i..(k + 1)}
                  : i \in 1..(k + 1)}
           : k \in 0..n}

InitArith == \E ls \in ArithExprs(MaxArithOps) : Evaluate(ls, DefaultVars)

SpecArith == InitArith /\ [][Next]_allVars

\* C1: a well-formed expression made of numeric literals, parentheses and
\* binary operators is evaluated without error, and its value is the value
\* the documented precedence gives: * / % before + -, before < > <= >=,
\* before == !=, before and, before or, equal levels from left to right.
C1_PrecedenceOfTheOperatorTable ==
    /\ status # "error"
    /\ status = "done" => result.typeOf = "number" /\ result.num = RefEval(src)

\* ------------------------------------------------------------------------
\*                               Groups after a multiplication
\* ------------------------------------------------------------------------

Spaceless(ls) == SelectSeq(ls, LAMBDA l : l # <<" ">>)

\* round(12.4 + ceil(50.5) / 2 * (60 % 4)), the example of the documentation
DocExample ==
    << FuncNames.round \o <<"(">>, <<"1", "2", ".", "4">>, <<" ">>, <<"+">>, <<" ">>,
       FuncNames.ceil \o <<"(">>, <<"5", "0", ".", "5">>, <<")">>, <<" ">>, <<"/">>, <<" ">>,
       <<"2">>, <<" ">>, <<"*">>, <<" ">>, <<"(">>, <<"6", "0">>, <<" ">>, <<"%">>, <<" ">>,
       <<"4">>, <<")">>, <<")">> >>

\* a + b * (c) and a + b * f(c): alone, followed by an operator, and
\* followed by a closing token
GroupExprs ==
    {DocExample} \cup
    UNION {{ IF wrap THEN <<<<"(">>>> \o e \o <<<<")">>>> ELSE e : wrap \in BOOLEAN}
           : e \in {<<a, add, b, mul, open, c, <<")">> >> \o tail :
                       a \in ArithLiterals, b \in ArithLiterals,
                       c \in {<<"2">>, <<"2", ".", "5">>},
                       add \in {<<"+">>, <<"-">>}, mul \in {<<"*">>, <<"/">>, <<"%">>},
                       open \in {<<"(">>, FuncNames.ceil \o <<"(">>},
                       tail \in {<<>>, << <<"+">>, <<"3">> >>, << <<"*">>, <<"3">> >>}}}

InitGroup == \E ls \in GroupExprs : Evaluate(ls, DefaultVars)

SpecGroup == InitGroup /\ [][Next]_allVars

\* C2: the value of a parenthesis or of a function call that is the right
\* operand of * / % is multiplied before a + or - pending on its left is
\* applied: a + b * (c) is a + (b * c), and in the example of the
\* documentation round receives 12.4 and returns 12.
C2_GroupIsOperandOfMultiplication ==
    /\ status # "error"
    /\ status = "done" => result.typeOf = "number" /\ result.num = RefEval(Spaceless(src))
    /\ (status = "done" /\ src = DocExample) =>
          /\ calls[Len(calls)].name = FuncNames.round
          /\ calls[Len(calls)].args[1].numValue = Ratio(124, 10)
          /\ result.num = Int2Num(12)

\* ------------------------------------------------------------------------
\*                               Operands
\* ------------------------------------------------------------------------

\* An operand as written (lex) and what it denotes: its kind, and its
\* number, its text (for a number, its decimal text) or its array.
Operand(lex, kind, num, str, arr) ==
    [lex |-> lex, kind |-> kind, num |-> num, str |-> str, arr |-> arr]

NumberOperands ==
    { Operand(<<"0">>, "number", Int2Num(0), <<"0">>, <<>>),
      Operand(<<"1">>, "number", Int2Num(1), <<"1">>, <<>>),
      Operand(<<"2">>, "number", Int2Num(2), <<"2">>, <<>>),
      Operand(<<"3">>, "number", Int2Num(3), <<"3">>, <<>>),
      Operand(<<"1", "2", ".", "5">>, "number", Ratio(25, 2), <<"1", "2", ".", "5">>, <<>>),
      Operand(<<"x">>, "number", Int2Num(3), <<"3">>, <<>>),
      Operand(<<"b">>, "number", Int2Num(1), <<"1">>, <<>>),
      Operand(<<"c">>, "number", Int2Num(0), <<"0">>, <<>>) }

StringOperands ==
    { Operand(<<"'", "A", "'">>, "string", undefinedNum, <<"A">>, <<>>),
      Operand(<<"'", "x", "'">>, "string", undefinedNum, <<"x">>, <<>>),
      Operand(<<"'", "B", "e", "a", "m", "e", "r", "'">>, "string", undefinedNum,
              <<"B", "e", "a", "m", "e", "r">>, <<>>),
      Operand(<<"s">>, "string", undefinedNum, <<"a", "b">>, <<>>) }

\* longest array literal of a generated expression
MaxArrayLen == 2

ArrayElements == {<<"0">>, <<"3">>}

\* [e1,e2,...]
RECURSIVE ArrayBody(_)
ArrayBody(es) ==
    IF es = <<>> THEN <<>>
    ELSE es[1] \o (IF Len(es) > 1 THEN <<",">> ELSE <<>>) \o ArrayBody(Tail(es))

\* the operand of an array literal whose elements are written es
ArrayOperand(es) ==
    Operand(<<"[">> \o ArrayBody(es) \o <<"]">>, "array", undefinedNum, <<>>,
            [i \in 1..Len(es) |-> RefLiteral(es[i])])

\* the arrays of the examples of the documentation
TwoThree == ArrayOperand(<< <<"2">>, <<"3">> >>)
FourFive == ArrayOperand(<< <<"4">>, <<"5">> >>)
FourFiveSix == ArrayOperand(<< <<"4">>, <<"5">>, <<"6">> >>)

ArrayOperands ==
    { Operand(<<"v">>, "array", undefinedNum, <<>>, <<Int2Num(1), Int2Num(2)>>),
      TwoThree, FourFive, FourFiveSix } \cup
    UNION {{ArrayOperand(es) : es \in [1..n -> ArrayElements]} : n \in 0..MaxArrayLen}

Operands == NumberOperands \cup StringOperands \cup ArrayOperands

\* the operand written lex
OperandOf(lex) == CHOOSE o \in Operands : o.lex = lex

\* ------------------------------------------------------------------------
\*                               Unary operators
\* ------------------------------------------------------------------------

NotLexeme == <<"n", "o", "t">>

\* not x, not(x), -x, - x
UnaryExprs ==
    UNION {{ <<NotLexeme, <<" ">>, o.lex>>, <<NotLexeme, <<"(">>, o.lex, <<")">> >>,
             << <<"-">>, o.lex>>, << <<"-">>, <<" ">>, o.lex>> }
           : o \in {u \in Operands : u.kind # "array" \/ Len(u.arr) = 1 \/ u.lex = <<"v">>}}

InitUnary == \E ls \in UnaryExprs : Evaluate(ls, DefaultVars)

SpecUnary == InitUnary /\ [][Next]_allVars

\* the operand of an expression of UnaryExprs
UnaryOperand == OperandOf(IF src[Len(src)] = <<")">> THEN src[Len(src) - 1] ELSE src[Len(src)])

\* C3: `not x` and `not(x)` are 1 when the number x is 0 and 0 otherwise,
\* unary minus negates a number, and either operator applied to an operand
\* that is not a number is an error.
C3_UnaryOperators ==
    status \in {"done", "error"} =>
        IF UnaryOperand.kind = "number"
        THEN /\ status = "done"
             /\ result.typeOf = "number"
             /\ result.num = IF src[1] = NotLexeme
                             THEN Int2Num(IF UnaryOperand.num = Int2Num(0) THEN 1 ELSE 0)
                             ELSE NumNeg(UnaryOperand.num)
        ELSE status = "error"

\* ------------------------------------------------------------------------
\*                               Signed literals
\* ------------------------------------------------------------------------

\* most digits of a literal written after a sign
MaxSignDigits == 1

RECURSIVE DigitStrings(_)
DigitStrings(n) ==
    IF n = 0 THEN {<<>>} ELSE {<<d>> \o r : d \in {"3", "5"}, r \in DigitStrings(n - 1)}

SignLiterals == UNION {DigitStrings(n) : n \in 1..MaxSignDigits}

\* -5 * -3
MinusFiveTimesMinusThree == << <<"-">>, <<"5">>, <<" ">>, <<"*">>, <<" ">>, <<"-">>, <<"3">> >>

\* what is written before the sign: nothing, an operator, an opening token,
\* a comma, a value, a closing token
SignPrefixes ==
    { <<>>,
      << <<"5">>, <<"*">> >>, << <<"5">>, <<"-">> >>, << <<"5">>, <<" ">>, <<"-">>, <<" ">> >>,
      << <<"5">>, <<"<">> >>, << <<"5">>, <<" ", "a", "n", "d", " ">> >>,
      << <<"-">>, <<" ">> >>, << NotLexeme, <<" ">> >>,
      << <<"(">> >>, << <<"[">> >>, << FuncNames.ceil \o <<"(">> >>,
      << <<"[">>, <<"5">>, <<",">> >>, << FuncNames.iff \o <<"(">>, <<"5">>, <<",">> >>,
      << <<"5">> >>, << <<"5">>, <<" ">> >>, << <<"x">> >>, << <<"x">>, <<" ">> >>,
      << <<"'", "a", "'">> >>,
      << <<"(">>, <<"5">>, <<")">> >>, << <<"[">>, <<"5">>, <<"]">> >>,
      << FuncNames.ceil \o <<"(">>, <<"5">>, <<")">> >>,
      SubSeq(MinusFiveTimesMinusThree, 1, 5) }

SignSuffixes == {<<>>, << <<")">> >>, << <<"]">> >>, << <<"*">>, <<"2">> >>, << <<",">>, <<"1">>, <<")">> >>}

SignExprs ==
    {prefix \o <<sign, literal>> \o suffix :
        prefix \in SignPrefixes, sign \in {<<"+">>, <<"-">>},
        literal \in SignLiterals, suffix \in SignSuffixes}

InitSign == \E ls \in SignExprs : Evaluate(ls, DefaultVars)

SpecSign == InitSign /\ [][Next]_allVars

\* where the token read last starts
TokenStart == SkipSpaces(expr, prevPos)

\* the token read last starts with a + or - directly followed by a digit
SignRead ==
    /\ pos > prevPos
    /\ Ch(expr, TokenStart) \in {"+", "-"}
    /\ isDigit(Ch(expr, TokenStart + 1))

\* the number written at TokenStart: a sign and digits
SignedLiteral ==
    LET digits == Int2Num(DigitsToNat(DigitRun(expr, TokenStart + 2)))
    IN  IF Ch(expr, TokenStart) = "-" THEN NumNeg(digits) ELSE digits

\* the token before the one read last can be the left operand of an operator
AfterLeftOperand == prevClass \in {"Value", "ParamClose", "ArrayClose"}

\* C4: a + or - directly followed by a digit is part of the numeric literal
\* exactly when the token before it cannot be a left operand; after a value
\* or a closing token it is the operator alone.  -5 * -3 is 15 and, for
\* literals, `a -b` is a - b.
C4_SignOfLiteral ==
    /\ SignRead =>
          IF AfterLeftOperand
          THEN /\ token.tkType = (IF Ch(expr, TokenStart) = "-" THEN "Minus" ELSE "Plus")
               /\ pos = TokenStart + 1
          ELSE /\ token.tkType = "Value"
               /\ token.paType = "Number"
               /\ token.numValue = SignedLiteral
    /\ (status # "run" /\ src = MinusFiveTimesMinusThree) =>
          status = "done" /\ result.num = Int2Num(15)
    /\ (status # "run" /\ Len(src) = 4 /\ src[1] = <<"5">> /\ src[2] = <<" ">>
            /\ src[3] = <<"-">>) =>
          status = "done" /\ result.num = NumSub(Int2Num(5), RefLiteral(src[4]))

\* -5 * -3 has been evaluated: both signs were read as part of a literal
C4_Witness ==
    /\ status = "done"
    /\ src = MinusFiveTimesMinusThree
    /\ result.num = Int2Num(15)

\* ------------------------------------------------------------------------
\*                               Binary operators
\* ------------------------------------------------------------------------

\* iff(t<0.2 or t>0.7, 0, 1), the easing expression of the gallery
IffExample ==
    << FuncNames.iff \o <<"(">>, <<"t">>, <<"<">>, <<"0", ".", "2">>, <<" ", "o", "r", " ">>,
       <<"t">>, <<">">>, <<"0", ".", "7">>, <<",">>, <<" ">>, <<"0">>, <<",">>, <<" ">>,
       <<"1">>, <<")">> >>

\* the values of t the easing expression is evaluated with
EasingVars ==
    {[DefaultVars EXCEPT ![<<"t">>] = NumberVar(r)] : r \in {Ratio(1, 10), Ratio(1, 2), Ratio(9, 10)}}

\* operand operator operand
BinaryExprs == {<<a.lex, o, b.lex>> : a \in Operands, o \in OperatorLexemes, b \in Operands}

InitBinary ==
    \/ \E ls \in BinaryExprs : Evaluate(ls, DefaultVars)
    \/ \E v \in EasingVars : Evaluate(IffExample, v)

SpecBinary == InitBinary /\ [][Next]_allVars

\* the evaluation of `operand operator operand` is over
BinaryDone == Len(src) = 3 /\ status \in {"done", "error"}

Left == OperandOf(src[1])
Right == OperandOf(src[3])
Operator == OperatorOf(src[2]).tkType

\* the evaluation raised an error and returned nothing
Failed == status = "error" /\ Raised(error) /\ result = NoResult

\* a < b for finite numbers
RefLess(a, b) == a.n * b.d < b.n * a.d

\* whether the relation of a comparison operator holds of two finite numbers
RefCompare(tkType, a, b) ==
    CASE tkType = "Equal" -> a = b
      [] tkType = "Different" -> a # b
      [] tkType = "Lesser" -> RefLess(a, b)
      [] tkType = "Greater" -> RefLess(b, a)
      [] tkType = "LessEqual" -> ~RefLess(b, a)
      [] tkType = "GreaterEqual" -> ~RefLess(a, b)

\* C5: with scalar operands of which at least one is a string, + gives the
\* text of the left operand followed by the text of the right one (a number
\* gives its decimal text); every other operator raises an error.
C5_StringConcatenation ==
    (BinaryDone /\ Left.kind # "array" /\ Right.kind # "array"
                /\ (Left.kind = "string" \/ Right.kind = "string")) =>
        IF Operator = "Plus"
        THEN /\ status = "done"
             /\ result.typeOf = "string"
             /\ result.str = Left.str \o Right.str
        ELSE Failed

\* 1 + 'x' gave "1x"
C5_Witness ==
    /\ status = "done"
    /\ src = << <<"1">>, <<"+">>, <<"'", "x", "'">> >>
    /\ result.typeOf = "string"
    /\ result.str = <<"1", "x">>

\* C6: + - * / % of two arrays of the same length give the array of the
\* results of the operator on the elements of the same index.
C6_ElementWiseArrays ==
    (BinaryDone /\ Left.kind = "array" /\ Right.kind = "array"
                /\ Len(Left.arr) = Len(Right.arr) /\ Operator \in ArithTypes) =>
        /\ status = "done"
        /\ result.typeOf = "object"
        /\ Len(result.arr) = Len(Left.arr)
        /\ \A i \in 1..Len(Left.arr) :
              result.arr[i] = ArithOp(Operator, Left.arr[i], Right.arr[i])

\* [2,3] + [4,5] gave [6,8]
C6_Witness ==
    /\ status = "done"
    /\ src = <<TwoThree.lex, <<"+">>, FourFive.lex>>
    /\ result.arr = <<Int2Num(6), Int2Num(8)>>

\* C7: + - * / % of two arrays of different lengths, or of an array and a
\* scalar on either side, raise an error and return nothing.
C7_ArrayOperandMismatch ==
    (BinaryDone /\ Operator \in ArithTypes
                /\ \/ Left.kind = "array" /\ Right.kind # "array"
                   \/ Left.kind # "array" /\ Right.kind = "array"
                   \/ Left.kind = "array" /\ Right.kind = "array"
                      /\ Len(Left.arr) # Len(Right.arr)) =>
        Failed

\* [2,3] + [4,5,6] raised an error
C7_Witness ==
    /\ status = "error"
    /\ src = <<TwoThree.lex, <<"+">>, FourFiveSix.lex>>
    /\ Len(stack) = 3

ComparisonTypes == {"Equal", "Different", "Lesser", "Greater", "LessEqual", "GreaterEqual"}

\* C8: == != < > <= >= of two numbers give 1 when the relation holds and 0
\* when it does not; with a string or an array operand they raise an error.
C8_Comparisons ==
    (BinaryDone /\ Operator \in ComparisonTypes) =>
        IF Left.kind = "number" /\ Right.kind = "number"
        THEN /\ status = "done"
             /\ result.typeOf = "number"
             /\ result.num = Int2Num(IF RefCompare(Operator, Left.num, Right.num) THEN 1 ELSE 0)
        ELSE Failed

\* 2<=2 gave 1
C8_Witness ==
    /\ status = "done"
    /\ src = << <<"2">>, <<"<", "=">>, <<"2">> >>
    /\ result.num = Int2Num(1)

\* C9: `and` of two numbers is 1 when both are not zero, `or` is 1 when one
\* of them is not zero, 0 otherwise; with a string or an array operand they
\* raise an error; in iff(t<0.2 or t>0.7, 0, 1) the function receives the
\* `or` of the two comparisons.
C9_LogicalOperators ==
    /\ (BinaryDone /\ Operator \in LogicalTypes) =>
          IF Left.kind = "number" /\ Right.kind = "number"
          THEN /\ status = "done"
               /\ result.typeOf = "number"
               /\ result.num =
                     Int2Num(IF Operator = "LogicalAnd"
                             THEN (IF Left.num.n # 0 /\ Right.num.n # 0 THEN 1 ELSE 0)
                             ELSE (IF Left.num.n # 0 \/ Right.num.n # 0 THEN 1 ELSE 0))
          ELSE Failed
    /\ (src = IffExample /\ status # "run") =>
          /\ status = "done"
          /\ Len(calls) = 1
          /\ calls[1].name = FuncNames.iff
          /\ Len(calls[1].args) = 3
          /\ calls[1].args[1].paType = "Number"
          /\ calls[1].args[1].numValue =
                Int2Num(IF \/ RefLess(vars[<<"t">>].num, Ratio(2, 10))
                           \/ RefLess(Ratio(7, 10), vars[<<"t">>].num)
                        THEN 1 ELSE 0)

\* iff(t<0.2 or t>0.7, 0, 1) was evaluated with t = 0.9: iff received 1
C9_Witness ==
    /\ status = "done"
    /\ src = IffExample
    /\ vars[<<"t">>].num = Ratio(9, 10)
    /\ calls[1].args[1].numValue = Int2Num(1)

\* ------------------------------------------------------------------------
\*                               Variables
\* ------------------------------------------------------------------------

\* what is written before the identifier
VarPrefixes ==
    { <<>>, <<"2", "+">>, <<"2", " ", "*", " ">>, <<"(">>, <<"[">>, <<"2", " ">>,
      <<"'", "a", "'", "+">>, <<"r", "o", "u", "n", "d", "(">>, <<"-">>, <<"$">> }

\* the identifiers: defined in DefaultVars, or not
Identifiers ==
    { <<"x">>, <<"t">>, <<"s">>, <<"b">>, <<"c">>, <<"v">>,
      <<"u">>, <<"u", "n", "d", "e", "f", "i", "n", "e", "d", "V", "a", "r">>,
      <<"x", "1">>, <<"n", "o", "t", "a">>, <<"O", "r">> }

\* what is written after the identifier
VarSuffixes ==
    { <<>>, <<" ", "+", " ", "1">>, <<"+", "1">>, <<")">>, <<"]">>, <<" ", "(", "1", ")">>,
      <<"$">>, <<"*", "(">>, <<" ", "x">> }

VarExprs == {<<pre, id, suf>> : pre \in VarPrefixes, id \in Identifiers, suf \in VarSuffixes}

InitVars == \E ls \in VarExprs : Evaluate(ls, DefaultVars)

SpecVars == InitVars /\ [][Next]_allVars

\* the name that starts at TokenStart
NameRead == Substring(expr, TokenStart, ScanName(expr, TokenStart))

\* the main loop called the parser at a name that is not a function call and
\* not one of not, and, or
VariableLexed ==
    /\ status = "error" \/ pos > prevPos
    /\ isCharacter(Ch(expr, TokenStart))
    /\ Ch(expr, ScanName(expr, TokenStart)) # "("
    /\ \A i \in 1..3 : NamedOperators[i] # NameRead

\* C10: an identifier that is not a function call, not one of not/and/or and
\* not defined in the variable context raises "Unknown variable" when the
\* parser reads it, with nothing after it read; a defined variable gives a
\* value of the type of its content, a boolean being the number 1 or 0.
C10_Variables ==
    VariableLexed =>
        IF NameRead \notin DOMAIN vars
        THEN /\ Failed
             /\ error.msg = "Unknown variable"
             /\ pos = prevPos
        ELSE LET varValue == vars[NameRead]
             IN  /\ token.tkType = "Value"
                 /\ pos = ScanName(expr, TokenStart)
                 /\ CASE varValue.typeOf = "number" ->
                           token.paType = "Number" /\ token.numValue = varValue.num
                      [] varValue.typeOf = "string" ->
                           token.paType = "String" /\ token.sValue = varValue.str
                      [] varValue.typeOf = "object" ->
                           token.paType = "Array" /\ ArrayOf(token, vars) = varValue.arr
                      [] varValue.typeOf = "boolean" ->
                           /\ token.paType = "Number"
                           /\ token.numValue = Int2Num(IF varValue.bool THEN 1 ELSE 0)

\* undefinedVar + 1 raised "Unknown variable" at undefinedVar
C10_Witness ==
    /\ status = "error"
    /\ error.msg = "Unknown variable"
    /\ src = << <<>>, <<"u", "n", "d", "e", "f", "i", "n", "e", "d", "V", "a", "r">>,
                <<" ", "+", " ", "1">> >>
    /\ NameRead = src[2]

\* ------------------------------------------------------------------------
\*                               String literals
\* ------------------------------------------------------------------------

\* most pieces between the quotes of a generated string literal
MaxStringPieces == 2

\* what is written between the quotes: a character, a space, \' or \n
StringPieces == {<<"a">>, <<" ">>, <<"\\", "'">>, <<"\\", "n">>}

\* the texts made of n pieces
RECURSIVE StringBodies(_)
StringBodies(n) ==
    IF n = 0 THEN {<<>>} ELSE {p \o r : p \in StringPieces, r \in StringBodies(n - 1)}

\* what is written before the opening quote
StringPrefixes == {<<>>, <<"1", "+">>, <<"'", "b", "'", "+">>, FuncNames.iff \o <<"(", "1", ",">>}

\* what is written after the text: nothing (the literal is left open), the
\* closing quote, or the closing quote and more
StringClosings == {<<>>, <<"'">>, <<"'", "+", "1">>}

StringExprs(n) ==
    {<<pre, <<"'">> \o body, close>> :
        pre \in StringPrefixes, body \in UNION {StringBodies(k) : k \in 0..n},
        close \in StringClosings}

InitStrings == \E ls \in StringExprs(MaxStringPieces) : Evaluate(ls, DefaultVars)

SpecStrings == InitStrings /\ [][Next]_allVars

\* C11: a string literal whose opening quote has no unescaped closing quote
\* before the end of the expression raises an error, and calcExpr returns
\* nothing.
C11_UnterminatedString ==
    (Len(src) = 3 /\ src[3] = <<>> /\ status # "run") => Failed

\* ------------------------------------------------------------------------
\*                               End of input
\* ------------------------------------------------------------------------

\* the prefixes that open a group, and the others
OpeningPrefixes ==
    {<<"(">>, <<"[">>, FuncNames.round \o <<"(">>, <<"(", "(">>, <<"2", "*", "(">>}
EndPrefixes == OpeningPrefixes \cup {<<>>, <<"-">>, <<"2", "+">>, <<" ">>}

EndCores ==
    {<<>>, <<"1">>, <<"1", "+", "2">>, <<"x">>, <<"'", "a", "'">>, <<"v">>,
     <<"1", "+", "2", "*", "3">>}

\* the suffixes that end with an operator, those that close a group, and
\* the others
OperatorSuffixes == OperatorLexemes
ClosingSuffixes == {<<")">>, <<"]">>, <<")", ")">>, <<")", "+", "1">>}
EndSuffixes == OperatorSuffixes \cup ClosingSuffixes \cup {<<>>, <<" ">>, <<"*", "(">>, <<",">>}

EndExprs == {<<pre, core, suf>> : pre \in EndPrefixes, core \in EndCores, suf \in EndSuffixes}

InitEnd == \E ls \in EndExprs : Evaluate(ls, DefaultVars)

SpecEnd == InitEnd /\ [][Next]_allVars

\* the expression is empty, ends with an operator, or leaves a group open
Unfinished ==
    /\ Len(src) = 3
    /\ \/ Flatten(src) \in {<<>>, <<" ">>, <<" ", " ">>}
       \/ src[3] \in OperatorSuffixes
       \/ src[1] \in OpeningPrefixes /\ src[3] \notin ClosingSuffixes
       \/ src[1] = <<"(", "(">> /\ src[3] \in {<<")">>, <<"]">>, <<")", "+", "1">>}

\* C12: calcExpr returns a result only when, after the final left-reduction,
\* the stack holds exactly one token and that token is a value; an empty
\* expression, a trailing operator and a group still open raise an error.
C12_OneValueAtEnd ==
    /\ status = "done" =>
          /\ Len(stack) = 1
          /\ tkClass(stack[1]) = "Value"
          /\ startPoints = <<>>
          /\ result # NoResult
    /\ (Unfinished /\ status # "run") => Failed

\* (1+2 reached the end of the text and raised an error
C12_Witness ==
    /\ src = << <<"(">>, <<"1", "+", "2">>, <<>> >>
    /\ status = "error"
    /\ Len(stack) = 4
    /\ pos = Len(expr)

\* ------------------------------------------------------------------------
\*                               Closing tokens
\* ------------------------------------------------------------------------

\* prefixes of tokens that leave no group open
BalancedPrefixes ==
    {<<>>, <<"1">>, <<"1", "+", "2">>, <<"1", "+">>, <<"-">>, <<"'", "a", "'">>, <<"x", "*">>,
     <<"(", "1", ")">>, <<"(", "(", "1", ")", ")">>, <<"[", "1", ",", "2", "]">>,
     <<"[", "]">>, FuncNames.round \o <<"(", "1", ")">>, <<"(", "1", ")", "+", "(", "2", ")">>,
     FuncNames.iff \o <<"(", "1", ",", "(", "2", ")", ",", "[", "3", "]", ")">>}

\* prefixes of tokens that leave a group open
OpenPrefixes ==
    {<<"(">>, <<"(", "1">>, <<"[", "1">>, FuncNames.round \o <<"(", "1">>,
     <<"(", "1", ")", "*", "(", "2">>}

CloserLexemes == {<<",">>, <<")">>, <<"]">>}

CloserSuffixes == {<<>>, <<"+", "1">>, <<")">>, <<"$">>}

CloserExprs ==
    {<<pre, cl, suf>> : pre \in BalancedPrefixes \cup OpenPrefixes, cl \in CloserLexemes,
                        suf \in CloserSuffixes}

InitClosers == \E ls \in CloserExprs : Evaluate(ls, DefaultVars)

SpecClosers == InitClosers /\ [][Next]_allVars

\* C13: a comma, `)` or `]` read while no function call, array literal or
\* parenthesis is open raises the missing-opening error at that token,
\* whatever the tokens before it that left no group open.
C13_MissingOpening ==
    (Len(src) = 3 /\ src[1] \in BalancedPrefixes /\ src[2] \in CloserLexemes
                  /\ status # "run") =>
        /\ Failed
        /\ error.msg = "Missing starting parenthesis"
        /\ token.tkType = Str2TokenType(src[2])
        /\ prevPos = 1 + Len(src[1])
        /\ pos = prevPos + 1

\* (1)) raised the missing-opening error at its second `)`
C13_Witness ==
    /\ src = << <<"(", "1", ")">>, <<")">>, <<>> >>
    /\ status = "error"
    /\ error.msg = "Missing starting parenthesis"
    /\ token.tkType = "ParamClose"
    /\ pos = 5

\* ------------------------------------------------------------------------
\*                               Function calls
\* ------------------------------------------------------------------------

\* names no function is registered under
UnknownNames ==
    {<<"f", "o", "o">>, <<"R", "o", "u", "n", "d">>, <<"r", "o", "u", "n", "d", "s">>,
     <<"f", "1">>, <<"i", "f">>}

CallPrefixes == {<<>>, <<"2", "+">>, <<"(">>, FuncNames.ceil \o <<"(">>, <<"[">>, <<"-">>}

CallArguments ==
    {<<>>, <<"1">>, <<"1", ",", "2">>, <<"'", "a", "'">>, <<"1", ",", "2", ",", "3">>,
     <<"x", "+", "1">>, <<"2", ".", "5">>}

CallSuffixes == {<<")">>, <<")", "+", "1">>, <<")", ")">>}

\* prefix name(arguments) suffix
CallExprs ==
    {<<pre, name, <<"(">> \o arguments, suf>> :
        pre \in CallPrefixes, name \in UnknownNames \cup _exFunctions,
        arguments \in CallArguments, suf \in CallSuffixes}

InitCalls == \E ls \in CallExprs : Evaluate(ls, DefaultVars)

SpecCalls == InitCalls /\ [][Next]_allVars

\* C14: closing the call of a function whose name is not registered raises
\* an error; no function is called and the call stays on the stack, never
\* replaced by a value.
C14_UnknownFunction ==
    (Len(src) = 4 /\ src[2] \in UnknownNames /\ status # "run") =>
        /\ Failed
        /\ error.msg = "Unknown function"
        /\ token.tkType = "ParamClose"
        /\ prevPos = 1 + Len(src[1]) + Len(src[2]) + Len(src[3])
        /\ calls = <<>>
        /\ \E i \in 1..Len(stack) :
              /\ stack[i].tkType = "Function"
              /\ stack[i].sValue = src[2]
              /\ i = startPoint

\* 2+foo(1,2) raised "Unknown function" at the closing parenthesis
C14_Witness ==
    /\ src = << <<"2", "+">>, <<"f", "o", "o">>, <<"(", "1", ",", "2">>, <<")">> >>
    /\ status = "error"
    /\ error.msg = "Unknown function"
    /\ stack[3].tkType = "Function"

\* ------------------------------------------------------------------------
\*                               Checking the parameters
\* ------------------------------------------------------------------------

\* no expression is being evaluated
Idle ==
    /\ expr = <<>>
    /\ pos = 0
    /\ token = Token
    /\ stack = <<>>
    /\ state = "IdAndUnary"
    /\ startPoint = 0
    /\ startPoints = <<>>
    /\ vars = DefaultVars
    /\ calls = <<>>
    /\ status = "idle"
    /\ error = NoError
    /\ result = NoResult
    /\ prevPos = 0
    /\ prevClass = "None"
    /\ src = <<>>

evalVars == <<expr, pos, token, stack, state, startPoint, startPoints, vars, calls,
              status, error, result, prevPos, prevClass, src>>

\* most parameters of a call, and most types listed for it
MaxParams == 2

ParamKinds == {"Number", "String", "Array"}

\* a parameter of the kind paType
ParamOf(paType) == [Token EXCEPT !.tkType = "Value", !.paType = paType]

\* the lists of at most n parameters
ParamLists(n) == UNION {[1..k -> {ParamOf(t) : t \in ParamKinds}] : k \in 0..n}

\* the lists of at most n expected types; no list given reads as the empty list
ParamTypeLists(n) == UNION {[1..k -> ParamKinds \cup {"Any"}] : k \in 0..n}

InitCheckParams ==
    /\ Idle
    /\ ret = NoRet
    /\ \E ps \in ParamLists(MaxParams), n \in -1..(MaxParams + 1), ts \in ParamTypeLists(MaxParams) :
          call = [fn |-> "_checkFuncParams", params |-> ps, paramCount |-> n, paramTypes |-> ts]

\* what a function that returns nothing or throws e ends with
Ended(e) ==
    IF Raised(e) THEN [kind |-> "thrown", value |-> NoResult, msg |-> e.msg]
    ELSE [kind |-> "returned", value |-> NoResult, msg |-> ""]

\* _checkFuncParams(req, paramCount, paramTypes) is called
CheckParams ==
    /\ call.fn = "_checkFuncParams"
    /\ ret = NoRet
    /\ ret' = Ended(_checkFuncParams(call.params, call.paramCount, call.paramTypes))
    /\ UNCHANGED <<evalVars, call>>

SpecCheckParams == InitCheckParams /\ [][CheckParams]_allVars

\* the call has fewer or more parameters than the count expected
CountDiffers == call.paramCount >= 0 /\ Len(call.params) # call.paramCount

\* a parameter is not of the type listed for it, which is not the wildcard
KindDiffers ==
    \E i \in 1..Len(call.paramTypes) :
        /\ i <= Len(call.params)
        /\ call.paramTypes[i] # "Any"
        /\ call.params[i].paType # call.paramTypes[i]

\* a type is listed for a parameter the call does not have
ListedMissing == Len(call.paramTypes) > Len(call.params)

\* C15, as claimed: the call is rejected exactly when the expected count is
\* >= 0 and differs from the number of parameters, or a parameter's kind
\* differs from the listed type, which is not the wildcard; with a negative
\* count it is never rejected for the number of its parameters.
C15_RejectsExactly ==
    (call.fn = "_checkFuncParams" /\ ret # NoRet) =>
        /\ ret.kind = "thrown" <=> (CountDiffers \/ KindDiffers)
        /\ (call.paramCount < 0 /\ ~KindDiffers) => ret.kind = "returned"

\* C15, amended: the call is rejected exactly when the expected count is
\* >= 0 and differs from the number of parameters, or a type is listed for
\* a parameter the call does not have, or a parameter's kind differs from
\* the listed type, which is not the wildcard; with a negative count it is
\* rejected for the number of its parameters only when it has fewer than
\* the types listed.
C15_RejectsExactlyAmended ==
    (call.fn = "_checkFuncParams" /\ ret # NoRet) =>
        /\ ret.kind = "thrown" <=> (CountDiffers \/ ListedMissing \/ KindDiffers)
        /\ (call.paramCount < 0 /\ ~KindDiffers /\ ~ListedMissing) => ret.kind = "returned"
        /\ (CountDiffers => ret.msg = "WrongNrParams")

\* a call with two parameters, count -1 and the types [Number, Any] passed
C15_Witness ==
    /\ call.fn = "_checkFuncParams"
    /\ ret.kind = "returned"
    /\ call.paramCount = -1
    /\ Len(call.params) = 2
    /\ call.paramTypes = <<"Number", "Any">>
    /\ call.params[2].paType = "String"

\* ------------------------------------------------------------------------
\*                               Exported functions
\* ------------------------------------------------------------------------

\* the values a parameter, a default or a result may be, tagged with
\* their typeof as _valueOfToken tags them
JsUndefined == [typeOf |-> "undefined", str |-> <<>>, num |-> undefinedNum, arr |-> <<>>]
JsNumber(x) == [typeOf |-> "number", str |-> <<>>, num |-> x, arr |-> <<>>]
JsString(s) == [typeOf |-> "string", str |-> s, num |-> undefinedNum, arr |-> <<>>]
JsArray(a) == [typeOf |-> "object", str |-> <<>>, num |-> undefinedNum, arr |-> a]

\* a text is read as an expression after its leading spaces
isExprTrimmed(text) ==
    /\ text.typeOf = "string"
    /\ Ch(text.str, SkipSpaces(text.str, 0)) = "="

\* Tests if `text` is an expression: text !== undefined && text[0] === '='
isExpr(text) ==
    /\ text # JsUndefined
    /\ text.typeOf = "string"
    /\ Len(text.str) > 0
    /\ text.str[1] = "="

\* Array.prototype.toString(): the texts of the elements joined by commas,
\* an undefined element giving the empty text
RECURSIVE ArrayToString(_)
ArrayToString(a) ==
    IF a = <<>> THEN <<>>
    ELSE (IF Head(a) = undefinedNum THEN <<>> ELSE NumToString(Head(a)))
         \o (IF Len(a) > 1 THEN <<",">> \o ArrayToString(Tail(a)) ELSE <<>>)

\* the text parseFloat makes of its parameter
ToText(v) ==
    CASE v.typeOf = "string" -> v.str
      [] v.typeOf = "number" -> NumToString(v.num)
      [] v.typeOf = "object" -> ArrayToString(v.arr)
      [] OTHER -> <<"undefined">>

\* the text s without its first k characters
Drop(s, k) == SubSeq(s, k + 1, Len(s))

\* whether the text s starts with the text p
StartsWith(s, p) == Len(s) >= Len(p) /\ SubSeq(s, 1, Len(p)) = p

\* the index (from 0) of the first character of s that is not white space
RECURSIVE SkipWhite(_, _)
SkipWhite(s, i) == IF Ch(s, i) \in {" ", "\n"} THEN SkipWhite(s, i + 1) ELSE i

\* parseFloat(value as string): leading white space is skipped, Infinity is
\* read with its sign, then the longest decimal number
parseFloatValue(v) ==
    LET Trimmed(s) ==
            IF StartsWith(s, <<"I", "n", "f", "i", "n", "i", "t", "y">>)
               \/ StartsWith(s, <<"+", "I", "n", "f", "i", "n", "i", "t", "y">>)
            THEN Infinity
            ELSE IF StartsWith(s, <<"-", "I", "n", "f", "i", "n", "i", "t", "y">>)
            THEN NegInfinity
            ELSE parseFloat(s)
        Text(s) == Trimmed(Drop(s, SkipWhite(s, 0)))
    IN  JsNumber(Text(ToText(v)))

WrapperNames == {"ifExprCalc", "ifExprCalcNum", "ifExprCalcStr", "ExprOrNumToNum"}

Returns(v) == [kind |-> "returned", value |-> v, msg |-> ""]
Throws(msg) == [kind |-> "thrown", value |-> NoResult, msg |-> msg]

\* calcExpr(expr, args) is entered: _stateMachine starts at pos 1
StartCalc(e) ==
    /\ expr' = e
    /\ pos' = 1
    /\ token' = Token
    /\ stack' = <<>>
    /\ state' = "IdAndUnary"
    /\ startPoint' = 0
    /\ startPoints' = <<>>
    /\ calls' = <<>>
    /\ status' = "run"
    /\ error' = NoError
    /\ result' = NoResult
    /\ prevPos' = 1
    /\ prevClass' = "None"
    /\ UNCHANGED <<vars, src>>

\* the default ifExprCalcNum is given by the function called:
\* ExprOrNumToNum passes param !== undefined ? param as number : defValue
DefaultOf(c) ==
    CASE c.fn = "ifExprCalc" -> JsUndefined
      [] c.fn = "ExprOrNumToNum" -> (IF c.param # JsUndefined THEN c.param ELSE c.def)
      [] OTHER -> c.def

\* the strict test of ExprOrNumToNum on the type of its parameter
ParamRefused(c) ==
    /\ c.fn = "ExprOrNumToNum"
    /\ c.isStrict
    /\ c.param # JsUndefined
    /\ c.param.typeOf \notin {"string", "number"}

\* a wrapper is called: it throws on a parameter it refuses, returns its
\* default for a text that is not an expression, and calls calcExpr otherwise
Enter ==
    /\ call.fn \in WrapperNames
    /\ status = "idle"
    /\ ret = NoRet
    /\ IF ParamRefused(call)
       THEN ret' = Throws("MustBeANumberOrExpr") /\ UNCHANGED <<evalVars, call>>
       ELSE IF ~isExpr(call.param)
       THEN ret' = Returns(DefaultOf(call)) /\ UNCHANGED <<evalVars, call>>
       ELSE StartCalc(call.param.str) /\ UNCHANGED <<call, ret>>

\* the wrappers without the tests of the strict mode
ValueOfLenient(c, exprValue) ==
    CASE c.fn = "ifExprCalc" -> Returns(exprValue)
      [] c.fn \in {"ifExprCalcNum", "ExprOrNumToNum"} ->
            Returns(IF exprValue # JsUndefined THEN parseFloatValue(exprValue)
                     ELSE DefaultOf(c))
      [] c.fn = "ifExprCalcStr" ->
            Returns(IF exprValue # JsUndefined THEN exprValue ELSE DefaultOf(c))

\* what the wrapper c makes of exprValue, the value calcExpr returned
ValueOf(c, exprValue) ==
    CASE c.fn = "ifExprCalc" -> Returns(exprValue)
      [] c.fn \in {"ifExprCalcNum", "ExprOrNumToNum"} ->
            IF c.isStrict /\ exprValue # JsUndefined /\ exprValue.typeOf # "number"
            THEN Throws("MustBeANumber")
            ELSE Returns(IF exprValue # JsUndefined THEN parseFloatValue(exprValue)
                          ELSE DefaultOf(c))
      [] c.fn = "ifExprCalcStr" ->
            IF c.isStrict /\ exprValue # JsUndefined /\ exprValue.typeOf # "string"
            THEN Throws("MustBeAString")
            ELSE Returns(IF exprValue # JsUndefined THEN exprValue ELSE DefaultOf(c))

\* calcExpr has returned or thrown: the wrapper returns or throws
Leave ==
    /\ call.fn \in WrapperNames
    /\ status \in {"done", "error"}
    /\ ret = NoRet
    /\ ret' = IF status = "error" THEN Throws(error.msg) ELSE ValueOf(call, result)
    /\ UNCHANGED <<evalVars, call>>

NextExported == Enter \/ Step \/ Finish \/ Leave

\* the texts, numbers and other values the wrappers are called with
TextOf(chars) == JsString(chars)

ExpressionTexts ==
    { <<"=", "1">>, <<"=", "1", "+", "2">>, <<"=", "-", "7">>, <<"=", "1", "/", "4">>,
      <<"=", "'", "a", "'">>, <<"=", "'", "7", "a", "'">>, <<"=", "'", " ", "2", ".", "5", "'">>,
      <<"=", "1", "+", "'", "x", "'">>, <<"=", "[", "1", ",", "2", "]">>, <<"=", "[", "]">>,
      <<"=", "x">>, <<"=", "s">>, <<"=", "v">>, <<"=", "b">>, <<"=", "1", "/", "0">>,
      <<"=", "0", "/", "0">>, <<"=", "u">>, <<"=", "1", "+">>, <<"=">>, <<"=", "=", "1">> }

PlainTexts ==
    { <<>>, <<"a", "b", "c">>, <<"1", "2">>, <<"x">>, <<"u">>, <<" ", "=", "1">>,
      <<"1", "=">>, <<"'", "a">>, <<"-", "3", ".", "5">> }

Parameters ==
    {TextOf(e) : e \in ExpressionTexts \cup PlainTexts}
    \cup {JsUndefined, JsNumber(Int2Num(5)), JsNumber(Ratio(-5, 2)), JsArray(<<Int2Num(1)>>)}

Defaults == {JsUndefined, JsNumber(Int2Num(9)), JsString(<<"d">>)}

InitExported ==
    /\ Idle
    /\ ret = NoRet
    /\ \E fn \in WrapperNames, p \in Parameters, d \in Defaults, strict \in BOOLEAN :
          call = [fn |-> fn, param |-> p, def |-> d, isStrict |-> strict]

SpecExported == InitExported /\ [][NextExported]_allVars

\* ------------------------------------------------------------------------
\*                               C16: the strict mode of the typed wrappers
\* ------------------------------------------------------------------------

\* the wrapper has ended after calcExpr returned a value
CalcReturned == ret # NoRet /\ status = "done"

\* C16: in strict mode ifExprCalcNum raises an error whenever the result of
\* the expression is not a number and ifExprCalcStr whenever it is not a
\* string; a result of the requested type is returned unchanged
C16_StrictTyped ==
    (CalcReturned /\ call.isStrict) =>
        /\ call.fn = "ifExprCalcNum" =>
              IF result.typeOf = "number"
              THEN ret = Returns(result)
              ELSE ret = Throws("MustBeANumber")
        /\ call.fn = "ifExprCalcStr" =>
              IF result.typeOf = "string"
              THEN ret = Returns(result)
              ELSE ret = Throws("MustBeAString")

\* strict ifExprCalcNum("='a'") has raised MustBeANumber
C16_Witness ==
    /\ call.fn = "ifExprCalcNum"
    /\ call.isStrict
    /\ call.param = TextOf(<<"=", "'", "a", "'">>)
    /\ status = "done"
    /\ result = JsString(<<"a">>)
    /\ ret = Throws("MustBeANumber")

\* ------------------------------------------------------------------------
\*                               C17: texts that are not expressions
\* ------------------------------------------------------------------------

\* the text is defined and its first character is `=`
FirstIsEquals(text) == text.typeOf = "string" /\ Ch(text.str, 0) = "="

\* the evaluator has not been entered: nothing lexed, no error
Untouched ==
    /\ status = "idle"
    /\ pos = 0
    /\ token = Token
    /\ stack = <<>>
    /\ error = NoError
    /\ result = NoResult

\* C17: a text is an expression exactly when it is defined and starts with
\* `=`: for such a text the wrappers evaluate it, and for any other
\* ifExprCalc returns undefined and ifExprCalcNum and ifExprCalcStr return
\* the default of the caller, nothing being lexed and no error raised
C17_NotAnExpression ==
    call.fn \in {"ifExprCalc", "ifExprCalcNum", "ifExprCalcStr"} =>
        IF FirstIsEquals(call.param)
        THEN ret # NoRet => status \in {"done", "error"}
        ELSE /\ Untouched
             /\ ret # NoRet =>
                   ret = Returns(IF call.fn = "ifExprCalc" THEN JsUndefined ELSE call.def)

\* ifExprCalcNum(" =1", 9) has returned 9 and lexed nothing
C17_Witness ==
    /\ call.fn = "ifExprCalcNum"
    /\ call.param = TextOf(<<" ", "=", "1">>)
    /\ call.def = JsNumber(Int2Num(9))
    /\ ret = Returns(JsNumber(Int2Num(9)))
    /\ Untouched

\* ------------------------------------------------------------------------
\*                               C18: ExprOrNumToNum
\* ------------------------------------------------------------------------

\* the call gives ExprOrNumToNum what its signature declares: an expression
\* text or a number (or nothing), and a number or nothing as the default
WellTyped(c) ==
    /\ c.param.typeOf \in {"string", "number", "undefined"}
    /\ c.def.typeOf \in {"number", "undefined"}

\* C18: ExprOrNumToNum returns a number or undefined: the value computed for
\* an expression, the parameter as a number otherwise, the default only for
\* an undefined parameter; for a text not starting with `=` a number
C18_ReturnsNumber ==
    (call.fn = "ExprOrNumToNum" /\ WellTyped(call) /\ ret.kind = "returned") =>
        /\ ret.value.typeOf \in {"number", "undefined"}
        /\ call.param = JsUndefined => ret.value = call.def
        /\ call.param.typeOf = "number" => ret.value = call.param
        /\ (call.param.typeOf = "string" /\ ~FirstIsEquals(call.param)) =>
              ret.value = parseFloatValue(call.param)

\* ------------------------------------------------------------------------
\*                               C19: the round trip of the integers
\* ------------------------------------------------------------------------

\* the integers -MaxInt .. MaxInt are written and evaluated
MaxInt == 110

\* n.toString() for an integer n
DecimalOf(n) == (IF n < 0 THEN <<"-">> ELSE <<>>) \o NatToString(IF n < 0 THEN -n ELSE n)

IntegerExprs(m) == { <<DecimalOf(n)>> : n \in (-m)..m }

InitIntegers == \E ls \in IntegerExprs(MaxInt) : Evaluate(ls, DefaultVars)

SpecIntegers == InitIntegers /\ [][Next]_allVars

\* C19: for every integer n of the range, the negative ones included,
\* evaluating `=` followed by the decimal form of n returns the number n
C19_IntegerRoundTrip ==
    \A n \in (-MaxInt)..MaxInt :
        (src = <<DecimalOf(n)>> /\ status # "run") =>
            /\ expr = <<"=">> \o DecimalOf(n)
            /\ status = "done"
            /\ result = JsNumber(Int2Num(n))

\* =-107 has returned -107
C19_Witness ==
    /\ expr = <<"=", "-", "1", "0", "7">>
    /\ status = "done"
    /\ result = JsNumber(Int2Num(-107))

\* ------------------------------------------------------------------------
\*                               C20: what an error carries
\* ------------------------------------------------------------------------

\* expressions that raise an error, by the step that raises it
LexerFaults == { << <<"1">>, <<"#">> >>, << <<"u">> >> }

MachineFaults ==
    { << <<")">> >>, << <<"1">>, <<"+">> >>, << <<"1">>, <<" ">>, <<"2">> >>,
      << <<"f">>, <<"(">>, <<"1">>, <<")">> >> }

ParamFaults ==
    { <<FuncNames.round, <<"(">>, <<")">> >>,
      <<FuncNames.round, <<"(">>, <<"'", "a", "'">>, <<")">> >> }

ReduceFaults ==
    { << <<"-">>, <<" ">>, <<"'", "a", "'">> >>,
      << <<"'", "a", "'">>, <<"*">>, <<"2">> >> }

ArrayFaults ==
    { <<TwoThree.lex, <<"+">>, FourFiveSix.lex>>, <<TwoThree.lex, <<"+">>, <<"1">> >> }

FaultPrefixes == { <<>>, << <<"1">>, <<"+">> >>, << <<"(">> >>, << <<"2">>, <<"*">>, <<"(">> >> }

FaultSuffixes == { <<>>, << <<"+">>, <<"1">> >> }

FaultExprs ==
    { pre \o core \o suf :
        pre \in FaultPrefixes,
        core \in LexerFaults \cup MachineFaults \cup ParamFaults \cup ReduceFaults \cup ArrayFaults,
        suf \in FaultSuffixes }

InitFaults == \E ls \in FaultExprs : Evaluate(ls, DefaultVars)

SpecFaults == InitFaults /\ [][Next]_allVars

\* C20: every error raised during an evaluation, whichever step raises it,
\* carries the text of the expression and the token that triggered it
C20_ErrorsCarryContext == status = "error" => (error.expr /\ error.token)

\* ------------------------------------------------------------------------
\*                               C21: every evaluation ends
\* ------------------------------------------------------------------------

\* the longest text evaluated
MaxTextLen == 3

\* the characters the texts are made of
TextChars == {"1", "-", "*", "(", ")", ",", "[", "]", "'", "x", " "}

RECURSIVE Texts(_)
Texts(n) == IF n = 0 THEN {<<>>} ELSE {<<>>} \cup {<<c>> \o t : c \in TextChars, t \in Texts(n - 1)}

\* nothing is being evaluated; calcExpr is about to be called
InitTexts == Idle /\ call = [fn |-> "calcExpr"] /\ ret = NoRet

\* calcExpr is called with a text
Begin ==
    /\ status = "idle"
    /\ \E t \in Texts(MaxTextLen) : StartCalc(<<"=">> \o t)
    /\ UNCHANGED <<call, ret>>

NextTexts == Begin \/ Step \/ Finish

SpecTexts == InitTexts /\ [][NextTexts]_allVars

\* an iteration of the main loop, or the call that enters it: the lexer is
\* called and the evaluation ends or its cursor moves
LoopIterates ==
    /\ status \in {"idle", "run"}
    /\ \E s \in {"run", "done", "error"}, p \in 0..(Len(expr) + 1) :
          /\ status' = s
          /\ pos' = p
          /\ (s # status \/ p > pos)

\* the main loop is a plain loop of one thread: while the evaluation runs,
\* its next iteration happens
SpecTextsFair == SpecTexts /\ WF_<<status, pos>>(LoopIterates)

\* a token was read and handled without an error
TokenHandled == status = "run" /\ status' = "run"

\* the lexer left the cursor after the token it returned, at most one place
\* past the end of the text (after a string with no closing quote)
CursorAdvances == TokenHandled => (pos' > pos /\ pos' <= Len(expr) + 1)

\* a prefix operator waits on top of the stack for its operand
UnaryPending ==
    /\ state = "NoUnary"
    /\ stack # <<>>
    /\ tkClass(stack[Len(stack)]) \in {"Unary", "LogicalUnary"}
    /\ (Len(stack) = 1 \/ tkClass(stack[Len(stack) - 1]) # "Value")

\* handling a value or an operator pushes one token (a value replaces the
\* prefix operator that waits for it) and each reduction then shortens the
\* stack by two
ReducesByTwo ==
    (TokenHandled /\ tkClass(token') \in {"Value", "Unary", "LogicalUnary", "Binary"}) =>
        LET pushed == IF tkClass(token') = "Value" /\ UnaryPending THEN 0 ELSE 1
        IN  /\ Len(stack') <= Len(stack) + pushed
            /\ (Len(stack) + pushed - Len(stack')) % 2 = 0

\* no token is read once the end of the text was read
StopsAtEnd == status \in {"done", "error"} => UNCHANGED allVars

NegatedLiterals == {<<"2">>, <<"5">>, <<"1", "2", ".", "5">>}

\* the numeric variables of DefaultVars
NumericVariables == {<<"x">>, <<"t">>}

\* a operator -x, with or without a space before the minus; x is a numeric
\* variable or, for contrast, the literal 3, whose sign the lexer absorbs
NegatedExprs ==
    { <<a, o, gap, <<"-">>, x>> :
        a \in NegatedLiterals, o \in OperatorLexemes, gap \in {<<>>, <<" ">>},
        x \in NumericVariables \cup {<<"3">>} }

InitNegated == \E ls \in NegatedExprs : Evaluate(ls, DefaultVars)

SpecNegated == InitNegated /\ [][Next]_allVars

\* C22: after a binary operator a prefix minus is legal: for a literal a and
\* a numeric variable x, `a operator -x` is accepted and evaluates to
\* a operator (-x)
C22_UnaryAfterOperator ==
    (src \in NegatedExprs /\ src[5] \in NumericVariables /\ status # "run") =>
        /\ status = "done"
        /\ result = JsNumber(RefApply(OperatorOf(src[2]).tkType, RefLiteral(src[1]),
                                      NumNeg(DefaultVars[src[5]].num)))

\* ------------------------------------------------------------------------
\*                               C23: a token the state does not allow
\* ------------------------------------------------------------------------

\* the token just read made the evaluation throw, nothing being pushed
Rejected ==
    /\ status' = "error"
    /\ Raised(error')
    /\ stack' = stack
    /\ result' = NoResult

\* a token of class c is read in a state that does not allow it
IllegalToken(c) ==
    /\ status = "run"
    /\ \/ state = "Binary" /\ c \in {"Value", "Function", "ArrayOpen", "ParamOpen"}
       \/ state # "Binary" /\ c = "Binary"

\* C23: a value or an opening token read where a binary operator or a close
\* is expected, and a binary operator read where an operand is expected,
\* raise an error at once, and no token is lexed after an error
C23_IllegalTokenRejected ==
    [][/\ IllegalToken(tkClass(token')) => Rejected
       /\ status = "error" => UNCHANGED allVars]_allVars

\* `1x(`: the call of x was read where an operator was expected
C23_Witness ==
    /\ expr = <<"=", "1", "x", "(">>
    /\ status = "error"
    /\ state = "Binary"
    /\ tkClass(token) = "Function"
    /\ pos = 4
    /\ Len(stack) = 1

\* ------------------------------------------------------------------------
\*                               C24: what a closing token finds in its group
\* ------------------------------------------------------------------------

GroupOpeners == {<<"(">>, <<"[">>, FuncNames.round \o <<"(">>, FuncNames.iff \o <<"(">>}

\* what is written between the opening and the closing token
GroupContents ==
    { <<"-">>, <<"+">>, <<"n", "o", "t">>, <<"1">>, <<"1", "+">>, <<"-", "x">>,
      <<"1", "+", "2">>, <<"2", ",", "-">>, <<"2", ",", "3">> }

ClosePrefixes == { <<>>, << <<"1">>, <<"+">> >>, << <<"(">> >> }

CloseSuffixes == { <<>>, << <<"+">>, <<"1">> >> }

CloseExprs ==
    { pre \o <<open, content, close>> \o suf :
        pre \in ClosePrefixes, open \in GroupOpeners, content \in GroupContents,
        close \in {<<")">>, <<"]">>}, suf \in CloseSuffixes }

InitCloses == \E ls \in CloseExprs : Evaluate(ls, DefaultVars)

SpecCloses == InitCloses /\ [][Next]_allVars

\* a closing token is read while a group that is not empty is open
ClosingNonEmptyGroup ==
    /\ status = "run"
    /\ tkClass(token') \in {"ParamClose", "ArrayClose"}
    /\ startPoint > 0
    /\ Len(stack) > startPoint

\* exactly one value token lies between the start point and the top of l
OneValue(l) ==
    /\ ~Raised(l.err)
    /\ Len(l.stack) = l.startPoint + 1
    /\ tkClass(l.stack[Len(l.stack)]) = "Value"

\* C24: the closing token of a group that is not empty is accepted only if
\* the left-reduction leaves exactly one value token between the start point
\* and the top of the stack; otherwise an error is raised and nothing is
\* handed to the function or the array
C24_CloseNeedsOneValue ==
    [][(ClosingNonEmptyGroup /\ ~OneValue(calcStackLeft(Machine))) =>
          (Rejected /\ calls' = calls)]_allVars

\* ------------------------------------------------------------------------
\*                               C25: what a function call hands over
\* ------------------------------------------------------------------------

\* most arguments of a generated call
MaxCallArgs == 3

\* what a value token carries: its type and the payload of that type
Carries(tok, e) ==
    /\ tok.tkType = "Value"
    /\ tok.paType = e.paType
    /\ (e.paType = "Number" => tok.numValue = e.num)
    /\ (e.paType = "String" => tok.sValue = e.str)
    /\ (e.paType = "Array" => tok.arrayValue = e.arr)

NumberArg(x) == [paType |-> "Number", num |-> x, str |-> <<>>, arr |-> <<>>]
StringArg(s) == [paType |-> "String", num |-> undefinedNum, str |-> s, arr |-> <<>>]
ArrayArg(a) == [paType |-> "Array", num |-> undefinedNum, str |-> <<>>, arr |-> a]

NestedCall == FuncNames.round \o <<"(", "2", ".", "5", ")">>

\* the argument expressions, each with the value it stands for
ArgValues ==
    (<<"7">> :> NumberArg(Int2Num(7)))
    @@ (<<"1", "<", "2">> :> NumberArg(Int2Num(1)))
    @@ (<<"2", "<", "1">> :> NumberArg(Int2Num(0)))
    @@ (<<"(", "1", "+", "2", ")">> :> NumberArg(Int2Num(3)))
    @@ (<<"1", "+", "2", "*", "3">> :> NumberArg(Int2Num(7)))
    @@ (<<"'", "l", "o", "t", "s", "'">> :> StringArg(<<"l", "o", "t", "s">>))
    @@ (<<"'", "f", "e", "w", "'">> :> StringArg(<<"f", "e", "w">>))
    @@ (<<"[", "1", ",", "2", "]">> :> ArrayArg(<<Int2Num(1), Int2Num(2)>>))
    @@ (NestedCall :> NumberArg(Int2Num(3)))

FirstArgs == DOMAIN ArgValues

LaterArgs ==
    {<<"'", "l", "o", "t", "s", "'">>, <<"'", "f", "e", "w", "'">>,
     <<"[", "1", ",", "2", "]">>, NestedCall}

ArgSeparator == <<",", " ">>

\* the lexemes of n arguments and the separators between them
RECURSIVE ArgLists(_)
ArgLists(n) ==
    IF n = 0 THEN {<<>>}
    ELSE IF n = 1 THEN {<<a>> : a \in FirstArgs}
    ELSE {l \o <<ArgSeparator, a>> : l \in ArgLists(n - 1), a \in LaterArgs}

CallWrappers ==
    { << <<>>, <<>> >>, << <<"(">>, <<")">> >>, << <<"2", "+">>, <<>> >> }

\* prefix name ( arguments ) suffix
ArgCallExprs(n) ==
    { <<w[1], name, <<"(">>>> \o l \o <<<<")">> \o w[2]>> :
        w \in CallWrappers, name \in {FuncNames.round, FuncNames.iff},
        l \in UNION {ArgLists(k) : k \in 0..n} }

InitArgCalls == \E ls \in ArgCallExprs(MaxCallArgs) : Evaluate(ls, DefaultVars)

SpecArgCalls == InitArgCalls /\ [][Next]_allVars

\* the number of arguments written in the call of src, and the i-th of them
ArgCount == (Len(src) - 3) \div 2
Arg(i) == src[2 + 2 * i]

\* the calls the arguments themselves make
NestedCalls == Cardinality({i \in 1..ArgCount : Arg(i) = NestedCall})

\* the call of src was handed its arguments, in the order written
HandedOver(c) ==
    /\ c.name = src[2]
    /\ Len(c.args) = ArgCount
    /\ \A i \in 1..ArgCount : Carries(c.args[i], ArgValues[Arg(i)])

\* what the function of src returns for the arguments written
ExpectedResult ==
    IF src[2] = FuncNames.iff
    THEN ArgValues[Arg(IF ArgValues[Arg(1)].num # Int2Num(0) THEN 2 ELSE 3)]
    ELSE ArgValues[Arg(1)]

\* the function of src accepts the arguments written
Accepts ==
    /\ ArgCount = (IF src[2] = FuncNames.iff THEN 3 ELSE 1)
    /\ ArgValues[Arg(1)].paType = "Number"

\* a step that closes a function call and goes on
ClosesCall ==
    /\ status = "run"
    /\ status' = "run"
    /\ tkClass(token') = "ParamClose"
    /\ startPoint > 0
    /\ tkClass(stack[startPoint]) = "Function"

\* the call token is replaced by one value and the stack below it is kept
CallReplaced ==
    /\ Len(calls') = Len(calls) + 1
    /\ Len(stack') = startPoint
    /\ SubSeq(stack', 1, startPoint - 1) = SubSeq(stack, 1, startPoint - 1)
    /\ stack'[startPoint].tkType = "Value"
    /\ Len(calls') = NestedCalls + 1 => Carries(stack'[startPoint], ExpectedResult)

\* C25: when a function call closes, the registered function receives the
\* values of its argument expressions, in source order, one per argument
\* (none for f()), also when an argument is a nested call, an array literal
\* or a parenthesised expression; the call token is then replaced by the
\* single result value
C25_CallReceivesArguments ==
    /\ [](status # "run" =>
            /\ Len(calls) = NestedCalls + 1
            /\ HandedOver(calls[Len(calls)])
            /\ \A k \in 1..NestedCalls :
                  /\ calls[k].name = FuncNames.round
                  /\ Len(calls[k].args) = 1
                  /\ Carries(calls[k].args[1], NumberArg(Ratio(5, 2)))
            /\ ~Accepts => (status = "error" /\
                             error.msg \in {"WrongNrParams", "WrongParamType"}))
    /\ [][ClosesCall => CallReplaced]_allVars

\* iff((1+2), round(2.5), [1,2]) handed three values over and gave 3
C25_Witness ==
    /\ src = << <<>>, FuncNames.iff, <<"(">>, <<"(", "1", "+", "2", ")">>, ArgSeparator,
                NestedCall, ArgSeparator, <<"[", "1", ",", "2", "]">>, <<")">> >>
    /\ status = "done"
    /\ Len(calls) = 2
    /\ Carries(calls[2].args[1], NumberArg(Int2Num(3)))
    /\ calls[2].args[3].arrayValue = <<Int2Num(1), Int2Num(2)>>
    /\ result = JsNumber(Int2Num(3))

\* ------------------------------------------------------------------------
\*                               C26: the start points
\* ------------------------------------------------------------------------

GroupOpenClasses == {"Function", "ArrayOpen", "ParamOpen"}

\* the stack indexes of the opening tokens, i.e. of the groups still open
OpenGroups == {i \in 1..Len(stack) : tkClass(stack[i]) \in GroupOpenClasses}

\* one start point per open group, in nesting order, each just above its
\* opening token, and the active one is the last (0 when none is open)
StartPointsInOrder ==
    /\ {startPoints[k] : k \in 1..Len(startPoints)} = OpenGroups
    /\ \A k \in 1..(Len(startPoints) - 1) : startPoints[k] < startPoints[k + 1]
    /\ startPoint = (IF startPoints = <<>> THEN 0 ELSE startPoints[Len(startPoints)])

\* a step that handles a token of one of the classes cs and goes on
Handles(cs) == TokenHandled /\ tkClass(token') \in cs

OpensOne ==
    Handles(GroupOpenClasses) =>
        /\ startPoints' = Append(startPoints, Len(stack) + 1)
        /\ stack' = Append(stack, token')

ClosesOne ==
    Handles({"ParamClose", "ArrayClose"}) =>
        /\ startPoints # <<>>
        /\ startPoints' = SubSeq(startPoints, 1, Len(startPoints) - 1)
        /\ Len(stack') = startPoint

\* C26: in every reachable state the list of start points has one entry per
\* open function call, array literal or parenthesis, in nesting order, the
\* active start point is its last entry (0 when none is open), and the stack
\* element just below each start point is the opening token of the group;
\* opening a group pushes one entry and closing one pops exactly one
C26_StartPoints ==
    /\ []StartPointsInOrder
    /\ [][OpensOne /\ ClosesOne]_allVars

\* (round(1+2) closed the call and is back in the parenthesis
C26_Witness ==
    /\ src = << <<"(">>, FuncNames.round \o <<"(">>, <<"1", "+", "2">>, <<")">> >>
    /\ Len(calls) = 1
    /\ startPoints = <<1>>
    /\ startPoint = 1
    /\ Len(stack) = 2
    /\ tkClass(stack[1]) = "ParamOpen"
    /\ stack[2].numValue = Int2Num(3)

\* ------------------------------------------------------------------------
\*                               C27: the comma
\* ------------------------------------------------------------------------

\* the innermost open group is of one of the classes cs
InnermostIs(cs) == startPoint > 0 /\ tkClass(stack[startPoint]) \in cs

\* the one token the left-reduced stack l holds above the opening token is
\* appended to the parameters of the owner and taken off the stack
ArgumentTaken(l) ==
    /\ InnermostIs({"Function", "ArrayOpen"})
    /\ Len(l.stack) = startPoint + 1
    /\ stack' = [SubSeq(l.stack, 1, startPoint) EXCEPT
                    ![startPoint].funcParams = Append(@, l.stack[startPoint + 1])]
    /\ Len(stack'[startPoint].funcParams) = Len(stack[startPoint].funcParams) + 1
    /\ startPoints' = startPoints
    /\ startPoint' = startPoint
    /\ state' = "IdAndUnary"

CommaInParenthesis ==
    status = "run" /\ tkClass(token') = "Comma" /\ InnermostIs({"ParamOpen"})

\* C27: a comma inside a function call or an array literal appends the
\* just-reduced argument to the owner's argument list, removes it from the
\* stack, leaves the list of start points unchanged and returns to the state
\* that expects an operand; a comma whose innermost open group is a plain
\* parenthesis raises an error
C27_Comma ==
    [][/\ Handles({"Comma"}) => ArgumentTaken(calcStackLeft(Machine))
       /\ CommaInParenthesis => (Rejected /\ error'.msg = "Missing function")]_allVars

\* 1+[2,3] after its comma: the array holds 2 and waits for an operand
C27_Witness ==
    /\ src = << <<"1">>, <<"+">>, <<"[">>, <<"2", ",", "3">>, <<"]">> >>
    /\ status = "run"
    /\ tkClass(token) = "Comma"
    /\ state = "IdAndUnary"
    /\ Len(stack) = 3
    /\ Len(stack[3].funcParams) = 1
    /\ stack[3].funcParams[1].numValue = Int2Num(2)
    /\ startPoints = <<3>>

\* ------------------------------------------------------------------------
\*                               C28: operators of equal precedence
\* ------------------------------------------------------------------------

ChainFirsts == {<<"7">>, <<"1", "2", ".", "5">>}

ChainLaters == {<<"2">>, <<"3">>}

\* the pairs of binary operators of one precedence level
SameLevelPairs ==
    {<<o, p>> \in OperatorLexemes \X OperatorLexemes :
        OperatorOf(o).level = OperatorOf(p).level}

\* where a chain is written: at top level, between parentheses, as the
\* element of an array literal, as the argument of a call
ChainGroups ==
    { << <<>>, <<>> >>, << <<"(">>, <<")">> >>, << <<"[">>, <<"]">> >>,
      << FuncNames.round \o <<"(">>, <<")">> >>,
      << <<"(", "(">>, <<")", ")">> >> }

\* open a o b p c close
ChainExprs ==
    { <<g[1], a, op[1], b, op[2], c, g[2]>> :
        g \in ChainGroups, a \in ChainFirsts, b \in ChainLaters, c \in ChainLaters,
        op \in SameLevelPairs }

InitChains == \E ls \in ChainExprs : Evaluate(ls, DefaultVars)

SpecChains == InitChains /\ [][Next]_allVars

\* (a o b) p c for the chain of src
LeftToRight ==
    RefApply(OperatorOf(src[5]).tkType,
             RefApply(OperatorOf(src[3]).tkType, RefLiteral(src[2]), RefLiteral(src[4])),
             RefLiteral(src[6]))

\* a o (b p c) for the chain of src
RightToLeft ==
    RefApply(OperatorOf(src[3]).tkType, RefLiteral(src[2]),
             RefApply(OperatorOf(src[5]).tkType, RefLiteral(src[4]), RefLiteral(src[6])))

\* C28: binary operators of equal precedence are applied left to right:
\* a o b p c is (a o b) p c, at top level and inside a parenthesis, an array
\* literal or a function call
C28_LeftToRight ==
    status # "run" =>
        /\ status = "done"
        /\ src[1] \in {<<>>, <<"(">>, <<"(", "(">>} => result = JsNumber(LeftToRight)
        /\ src[1] = <<"[">> => result = JsArray(<<LeftToRight>>)
        /\ src[1] = FuncNames.round \o <<"(">> =>
              /\ Len(calls) = 1
              /\ Len(calls[1].args) = 1
              /\ calls[1].args[1].numValue = LeftToRight

\* round(7-2-3) handed 2 to round, where 7-(2-3) is 8
C28_Witness ==
    /\ src = <<FuncNames.round \o <<"(">>, <<"7">>, <<"-">>, <<"2">>, <<"-">>, <<"3">>, <<")">>>>
    /\ status = "done"
    /\ calls[1].args[1].numValue = Int2Num(2)
    /\ LeftToRight # RightToLeft
    /\ result = JsNumber(Int2Num(2))

\* ------------------------------------------------------------------------
\*                               C29: three precedence levels
\* ------------------------------------------------------------------------

MixedFirsts == {<<"1", "5">>, <<"0">>, <<"1">>}

MixedLasts == {<<"4">>, <<"2">>}

\* the triples of binary operators of strictly increasing precedence
RisingTriples ==
    {t \in OperatorLexemes \X OperatorLexemes \X OperatorLexemes :
        /\ OperatorOf(t[1]).level < OperatorOf(t[2]).level
        /\ OperatorOf(t[2]).level < OperatorOf(t[3]).level}

\* a o b p c q d with no parentheses
MixedExprs ==
    { <<a, t[1], b, t[2], <<"3">>, t[3], d>> :
        a \in MixedFirsts, b \in {<<"2">>, <<"6">>}, d \in MixedLasts, t \in RisingTriples }

InitMixed == \E ls \in MixedExprs : Evaluate(ls, DefaultVars)

SpecMixed == InitMixed /\ [][Next]_allVars

\* C29: in a parenthesis-free expression that mixes three precedence levels
\* an operator is applied only when no later operator of strictly higher
\* precedence can still take its right operand: a o b p c q d with rising
\* precedences is a o (b p (c q d)), so a < b + c * d is 1 exactly when
\* a < b + (c * d), and a or b == c * d is a or (b == (c * d))
C29_HigherPrecedenceFirst ==
    status # "run" =>
        /\ status = "done"
        /\ result = JsNumber(
              RefApply(OperatorOf(src[2]).tkType, RefLiteral(src[1]),
                  RefApply(OperatorOf(src[4]).tkType, RefLiteral(src[3]),
                      RefApply(OperatorOf(src[6]).tkType, RefLiteral(src[5]),
                               RefLiteral(src[7])))))

\* ------------------------------------------------------------------------
\*                               C30: the payload of a value token
\* ------------------------------------------------------------------------

NumericElements == {<<"1">>, <<"2", ".", "5">>, <<"x">>, <<"1", "+", "2">>}

OtherElements ==
    {<<"'", "a", "'">>, <<"[", "1", "]">>, <<"s">>, <<"v">>,
     <<"1", "+", "'", "a", "'">>, <<"'", "a", "'", "+", "'", "b", "'">>}

Elements == NumericElements \cup OtherElements

\* an element alone, and the array literals of one and of two elements
ElementExprs ==
    {<<e>> : e \in Elements}
    \cup {<<<<"[">>, e, <<"]">>>> : e \in Elements}
    \cup {<<<<"[">>, e, <<",">>, f, <<"]">>>> : e \in Elements, f \in Elements}

InitElements == \E ls \in ElementExprs : Evaluate(ls, DefaultVars)

SpecElements == InitElements /\ [][Next]_allVars

IsNumber(x) == x # undefinedNum

\* tok carries the payload of its declared type and no other
OnePayload(tok) ==
    /\ tok.paType \in {"Number", "String", "Array"}
    /\ (tok.paType = "Number") <=> IsNumber(tok.numValue)
    /\ (tok.paType = "String") <=> tok.sValue # undefinedStr
    /\ tok.paType # "Array" => (tok.arrayValue = <<>> /\ tok.arrayRef = <<>>)
    /\ tok.paType = "Array" =>
          \A i \in 1..Len(ArrayOf(tok, vars)) : IsNumber(ArrayOf(tok, vars)[i])

\* src is an array literal with an element that is not a number
HasOtherElement ==
    /\ Len(src) > 1
    /\ \E i \in 2..(Len(src) - 1) : src[i] \in OtherElements

\* C30: the value an array literal produces is an array of numbers; in every
\* reachable state each value token on the stack carries exactly one payload
\* (string, number or numeric array), the one of its declared type; an array
\* literal with a string or an array as element does not produce a value
C30_OnePayload ==
    /\ \A i \in 1..Len(stack) : tkClass(stack[i]) = "Value" => OnePayload(stack[i])
    /\ (HasOtherElement /\ status # "run") => status = "error"

\* ------------------------------------------------------------------------
\*                               C31: names followed by a parenthesis
\* ------------------------------------------------------------------------

NamePrefixes == {<<>>, <<"1", "+">>, <<"(">>, <<"2", "*", "[">>}

NameGaps == {<<>>, <<" ">>}

LexedNames ==
    {<<"x">>, <<"t">>, <<"x", "1">>, FuncNames.round, FuncNames.ceil, <<"f", "o", "o">>,
     <<"n", "o", "t">>, <<"a", "n", "d">>, <<"o", "r">>, <<"n", "o", "t", "s">>}

\* what is written right after the name
NameFollowers ==
    {<<>>, <<"(", "1", ")">>, <<" ", "(", "1", ")">>, <<"(", ")">>, <<"+", "1">>,
     <<" ", "1">>, <<"[", "1", "]">>, <<")">>}

NameExprs ==
    {<<pre, gap, name, after>> :
        pre \in NamePrefixes, gap \in NameGaps, name \in LexedNames, after \in NameFollowers}

InitNames == \E ls \in NameExprs : Evaluate(ls, DefaultVars)

SpecNames == InitNames /\ [][Next]_allVars

\* the step that reads the name of src
ReadsName == status = "run" /\ pos = 1 + Len(src[1]) /\ status' # "done"

\* the position just after the name of src
NameEnd == 1 + Len(src[1]) + Len(src[2]) + Len(src[3])

FollowedByParenthesis == src[4] # <<>> /\ src[4][1] = "("

\* C31: an identifier is lexed as a function-call token exactly when it is
\* immediately followed by `(`, and the cursor then moves past the `(`; `not`
\* alone yields the logical-not operator and leaves the `(` to be lexed next;
\* `and(` and `or(` are function calls, not binary operators
C31_FunctionToken ==
    [][ReadsName =>
          /\ token'.tkType = "Function" <=>
                (FollowedByParenthesis /\ src[3] # <<"n", "o", "t">>)
          /\ token'.tkType = "Function" =>
                (token'.sValue = src[3] /\ pos' = NameEnd + 1 /\ status' = "run"
                 /\ stack' = Append(stack, token'))
          /\ (FollowedByParenthesis /\ src[3] = <<"n", "o", "t">>) =>
                (token'.tkType = "LogicalNot" /\ pos' = NameEnd /\ Ch(expr, pos') = "(")
          /\ (~FollowedByParenthesis /\ src[3] \in {<<"a", "n", "d">>, <<"o", "r">>}) =>
                tkClass(token') = "Binary"]_allVars

\* 1+ and(1): `and(` was read as the call of a function named and
C31_Witness ==
    /\ src = << <<"1", "+">>, <<" ">>, <<"a", "n", "d">>, <<"(", "1", ")">> >>
    /\ token.tkType = "Function"
    /\ token.sValue = <<"a", "n", "d">>
    /\ pos = 8
    /\ Len(stack) = 3
    /\ status = "run"

\* ------------------------------------------------------------------------
\*                               C32: eager evaluation
\* ------------------------------------------------------------------------

Invoked(name, x) == [name |-> name, arg |-> x]

\* the calls written, each with the invocations it makes, in the order in
\* which they close, and the value it stands for (x is 3 and t is 1/2)
CallTexts ==
    (FuncNames.round \o <<"(", "x", ")">> :>
        [calls |-> <<Invoked(FuncNames.round, Int2Num(3))>>, value |-> Int2Num(3)])
    @@ (FuncNames.ceil \o <<"(", "t", ")">> :>
        [calls |-> <<Invoked(FuncNames.ceil, Ratio(1, 2))>>, value |-> Int2Num(1)])
    @@ (FuncNames.round \o <<"(", "0", ")">> :>
        [calls |-> <<Invoked(FuncNames.round, Int2Num(0))>>, value |-> Int2Num(0)])
    @@ (FuncNames.round \o <<"(">> \o FuncNames.ceil \o <<"(", "2", ".", "5", ")", ")">> :>
        [calls |-> <<Invoked(FuncNames.ceil, Ratio(5, 2)),
                     Invoked(FuncNames.round, Int2Num(3))>>, value |-> Int2Num(3)])
    @@ (FuncNames.iff \o <<"(", "0", ",">> \o FuncNames.round \o <<"(", "x", ")", ",">>
            \o FuncNames.ceil \o <<"(", "t", ")", ")">> :>
        [calls |-> <<Invoked(FuncNames.round, Int2Num(3)),
                     Invoked(FuncNames.ceil, Ratio(1, 2)),
                     Invoked(FuncNames.iff, Int2Num(0))>>, value |-> Int2Num(1)])

LogicalLexemes == {<<" ", "a", "n", "d", " ">>, <<" ", "o", "r", " ">>}

LogicalLiterals == {<<"0">>, <<"1">>}

\* a op f(..), f(..) op a, f(..) op g(..), a op f(..) op g(..)
EagerExprs ==
    {<<a, o, f>> : a \in LogicalLiterals, o \in LogicalLexemes, f \in DOMAIN CallTexts}
    \cup {<<f, o, a>> : a \in LogicalLiterals, o \in LogicalLexemes, f \in DOMAIN CallTexts}
    \cup {<<f, o, g>> : o \in LogicalLexemes, f \in DOMAIN CallTexts, g \in DOMAIN CallTexts}
    \cup {<<a, o, f, p, g>> : a \in LogicalLiterals, o \in LogicalLexemes,
              p \in LogicalLexemes, f \in DOMAIN CallTexts, g \in DOMAIN CallTexts}

InitEager == \E ls \in EagerExprs : Evaluate(ls, DefaultVars)

SpecEager == InitEager /\ [][Next]_allVars

\* the invocations the lexemes ls make, in the order in which the calls close
RECURSIVE Invocations(_)
Invocations(ls) ==
    IF ls = <<>> THEN <<>>
    ELSE (IF Head(ls) \in DOMAIN CallTexts THEN CallTexts[Head(ls)].calls ELSE <<>>)
         \o Invocations(Tail(ls))

\* the first k invocations written were made, each once and in order
MadeInOrder(k) ==
    /\ Len(calls) = k
    /\ k <= Len(Invocations(src))
    /\ \A i \in 1..k :
          /\ calls[i].name = Invocations(src)[i].name
          /\ calls[i].args # <<>>
          /\ calls[i].args[1].numValue = Invocations(src)[i].arg

\* the value of the operand written as lex
OperandValue(lex) ==
    IF lex \in DOMAIN CallTexts THEN CallTexts[lex].value ELSE RefLiteral(lex)

\* a call closes at top level with a logical operator before it
ClosesAfterLogical ==
    /\ ClosesCall
    /\ Len(startPoints) = 1
    /\ startPoint > 1

\* the operator and its left operand are on the stack as they were
OperatorPending ==
    /\ tkClass(stack'[startPoint - 1]) = "Binary"
    /\ stack'[startPoint - 1].tkType \in LogicalTypes
    /\ SubSeq(stack', 1, startPoint - 1) = SubSeq(stack, 1, startPoint - 1)
    /\ Len(calls') = Len(calls) + 1

\* C32: every function call written in a well-formed expression is invoked
\* exactly once, in the order in which the calls close, whatever the values
\* of the operands of `and` and `or` around it; in `0 and f(x)` and
\* `1 or f(x)` f is invoked before the operator is applied
C32_Eager ==
    /\ [](/\ MadeInOrder(Len(calls))
          /\ status # "run" => (status = "done" /\ MadeInOrder(Len(Invocations(src))))
          /\ (status = "done" /\ Len(src) = 3) =>
                result = JsNumber(LogicOp(OperatorOf(src[2]).tkType,
                                          OperandValue(src[1]), OperandValue(src[3]))))
    /\ [][ClosesAfterLogical => OperatorPending]_allVars

\* 0 and round(x): round was invoked with 3 and the result is 0
C32_Witness ==
    /\ src = <<<<"0">>, <<" ", "a", "n", "d", " ">>, FuncNames.round \o <<"(", "x", ")">>>>
    /\ status = "done"
    /\ Len(calls) = 1
    /\ calls[1].name = FuncNames.round
    /\ calls[1].args[1].numValue = Int2Num(3)
    /\ result = JsNumber(Int2Num(0))

\* ------------------------------------------------------------------------
\*                               C33: string literals
\* ------------------------------------------------------------------------

\* most characters written after the opening quote
MaxQuotedLen == 4

QuotedChars == {"a", "n", "\\", "'"}

RECURSIVE QuotedTexts(_)
QuotedTexts(n) ==
    IF n = 0 THEN {<<>>}
    ELSE {<<>>} \cup {<<c>> \o t : c \in QuotedChars, t \in QuotedTexts(n - 1)}

\* an opening quote and what is written after it
InitQuoted == \E t \in QuotedTexts(MaxQuotedLen) : Evaluate(<<<<"'">>, t>>, DefaultVars)

SpecQuoted == InitQuoted /\ [][Next]_allVars

\* the quotes of t that are not immediately preceded by a backslash
ClosingQuotes(t) ==
    {j \in 1..Len(t) : t[j] = "'" /\ (j = 1 \/ t[j - 1] # "\\")}

FirstOf(S) == CHOOSE j \in S : \A k \in S : j <= k

\* the places of raw where a backslash is followed by n or by a quote
Escapes(raw) ==
    {i \in 1..(Len(raw) - 1) : raw[i] = "\\" /\ raw[i + 1] \in {"n", "'"}}

\* raw with every \' replaced by a quote and every \n by a newline
Unescaped(raw) ==
    Flatten([i \in 1..Len(raw) |->
                IF i \in Escapes(raw) THEN <<>>
                ELSE IF (i - 1) \in Escapes(raw)
                THEN <<(IF raw[i] = "n" THEN "\n" ELSE "'")>>
                ELSE <<raw[i]>>])

\* the step that reads the string literal of src, which has a closing quote
ReadsString == status = "run" /\ pos = 1 /\ ClosingQuotes(src[2]) # {}

\* C33: a string literal ends at the first single quote that is not
\* immediately preceded by a backslash; in its value every \' is replaced by
\* a quote and every \n by a newline, every other character, a backslash
\* before any other character included, being kept as written; the cursor
\* ends just after the closing quote
C33_StringLiteral ==
    [][ReadsString =>
          /\ token'.tkType = "Value"
          /\ token'.paType = "String"
          /\ token'.sValue =
                Unescaped(SubSeq(src[2], 1, FirstOf(ClosingQuotes(src[2])) - 1))
          /\ pos' = 2 + FirstOf(ClosingQuotes(src[2]))
          /\ stack' = <<token'>>]_allVars

\* '\'n' is the string 'n
C33_Witness ==
    /\ src = <<<<"'">>, <<"\\", "'", "n", "'">>>>
    /\ status = "done"
    /\ result = JsString(<<"'", "n">>)
    /\ pos = 6

\* ------------------------------------------------------------------------
\*                               C34: the operand of a prefix minus
\* ------------------------------------------------------------------------

\* numeric operands with the values they stand for (x is 3 and t is 1/2)
MinusOperands ==
    (<<"x">> :> Int2Num(3))
    @@ (<<"t">> :> Ratio(1, 2))
    @@ (<<"(", "3", ")">> :> Int2Num(3))
    @@ (<<"(", "1", "+", "2", ")">> :> Int2Num(3))
    @@ (<<"(", "x", ")">> :> Int2Num(3))
    @@ (FuncNames.round \o <<"(", "2", ".", "5", ")">> :> Int2Num(3))
    @@ (FuncNames.ceil \o <<"(", "t", ")">> :> Int2Num(1))
    @@ (FuncNames.round \o <<"(", "1", "+", "2", ")">> :> Int2Num(3))

MinusWrappers == { << <<>>, <<>> >>, << <<"(">>, <<")">> >>, << <<"[">>, <<"]">> >> }

\* open - operand close, with and without a space after the minus
MinusExprs ==
    { <<w[1], <<"-">> \o gap, e, w[2]>> :
        w \in MinusWrappers, gap \in {<<>>, <<" ">>}, e \in DOMAIN MinusOperands }

InitMinus == \E ls \in MinusExprs : Evaluate(ls, DefaultVars)

SpecMinus == InitMinus /\ [][Next]_allVars

\* C34: a prefix unary minus negates whatever operand follows it, not only a
\* literal or a variable: for a numeric expression E, -(E) and -f(E) evaluate
\* to the negation of the value of (E) and of f(E)
C34_MinusNegatesOperand ==
    status # "run" =>
        /\ status = "done"
        /\ src[1] # <<"[">> => result = JsNumber(NumNeg(MinusOperands[src[3]]))
        /\ src[1] = <<"[">> => result = JsArray(<<NumNeg(MinusOperands[src[3]])>>)

\* ------------------------------------------------------------------------
\*                               C35: the variable context
\* ------------------------------------------------------------------------

ContextOperands ==
    {<<"v">>, <<"[", "1", ",", "2", "]">>, <<"[", "3", "]">>, <<"x">>, <<"s">>, <<"b">>, <<"2">>}

ContextOperators == {<<"+">>, <<"-">>, <<"*">>, <<"=", "=">>}

\* a, a o b, a o b p c
ContextExprs ==
    {<<a>> : a \in ContextOperands}
    \cup {<<a, o, b>> : a \in ContextOperands, o \in ContextOperators, b \in ContextOperands}
    \cup {<<<<"v">>, o, b, p, c>> :
             o \in ContextOperators, p \in ContextOperators,
             b \in ContextOperands, c \in {<<"v">>, <<"2">>}}

InitContext == \E ls \in ContextExprs : Evaluate(ls, DefaultVars)

SpecContext == InitContext /\ [][Next]_allVars

\* C35: evaluating an expression never modifies the variable context: after
\* calcExpr returns or raises, every variable, each element of every array
\* variable included, has the value it had before
C35_ContextUntouched ==
    status # "run" => vars = DefaultVars

\* ------------------------------------------------------------------------
\*                               C36: the kind of a closing token
\* ------------------------------------------------------------------------

KindOpeners == {<<"(">>, <<"[">>, FuncNames.round \o <<"(">>}

KindContents == {<<"1">>, <<"1", "+", "2">>, <<"x">>, <<"2", ".", "5">>}

KindPrefixes == {<<>>, <<"1", "+">>, <<"(">>}

KindSuffixes == {<<>>, <<"*", "2">>, <<")">>}

\* prefix open content close suffix, the closing token of either kind
KindExprs ==
    {<<pre, open, content, close, suf>> :
        pre \in KindPrefixes, open \in KindOpeners, content \in KindContents,
        close \in {<<")">>, <<"]">>}, suf \in KindSuffixes}

InitKinds == \E ls \in KindExprs : Evaluate(ls, DefaultVars)

SpecKinds == InitKinds /\ [][Next]_allVars

\* a closing token is read whose kind is not that of the innermost open group
ClosesOtherKind ==
    /\ status = "run"
    /\ \/ tkClass(token') = "ArrayClose" /\ InnermostIs({"ParamOpen", "Function"})
       \/ tkClass(token') = "ParamClose" /\ InnermostIs({"ArrayOpen"})

\* C36: a closing token closes only a group of its own kind: `)` closes a
\* parenthesis or a function call and `]` an array literal; a `]` met while
\* the innermost open group is a parenthesis or a function call, or a `)` met
\* while it is an array literal, raises an error
C36_ClosesOwnKind ==
    [][ClosesOtherKind => Rejected]_allVars

\* ------------------------------------------------------------------------
\*                               C37: empty argument slots
\* ------------------------------------------------------------------------

SlotOpeners == {<<"[">>, FuncNames.round \o <<"(">>, FuncNames.iff \o <<"(">>}

\* what is written between the opening and the closing token
SlotLists ==
    {<<"1">>, <<"1", ",", "2">>, <<"1", ",", "2", ",", "3">>,
     <<",", "1">>, <<",">>, <<"1", ",", ",", "2">>,
     <<"1", ",">>, <<"1", ",", "2", ",">>, <<"1", ",", "2", ",", "3", ",">>,
     <<"1", ",", " ">>}

SlotExprs ==
    {<<open, list, (IF open = <<"[">> THEN <<"]">> ELSE <<")">>) \o suf>> :
        open \in SlotOpeners, list \in SlotLists,
        suf \in {<<>>, <<"+", "1">>, <<" ">>}}

InitSlots == \E ls \in SlotExprs : Evaluate(ls, DefaultVars)

SpecSlots == InitSlots /\ [][Next]_allVars

NoSpaces(t) == SelectSeq(t, LAMBDA c : c # " ")

Commas(t) == Len(SelectSeq(t, LAMBDA c : c = ","))

\* a comma with nothing before it, or with nothing after it
HasEmptySlot(t) ==
    LET s == NoSpaces(t)
    IN  \E i \in 1..Len(s) :
           /\ s[i] = ","
           /\ (i = 1 \/ i = Len(s) \/ s[i + 1] = ",")

\* C37: every argument slot of a function call or an array literal that
\* contains a comma must hold an expression: an empty slot before a comma
\* (f(,1)) and after the last comma (f(1,), [1,2,]) both raise an error, so
\* the number of arguments received is the number of commas plus one
C37_NoEmptySlot ==
    /\ (status # "run" /\ HasEmptySlot(src[2])) => (status = "error" /\ calls = <<>>)
    /\ \A i \in 1..Len(calls) : Len(calls[i].args) = Commas(src[2]) + 1
    /\ \A i \in 1..Len(stack) :
          (tkClass(stack[i]) = "Value" /\ stack[i].paType = "Array") =>
              Len(stack[i].arrayValue) = Commas(src[2]) + 1

\* ------------------------------------------------------------------------
\*                               C38: the typed wrappers outside strict mode
\* ------------------------------------------------------------------------

\* a call outside strict mode has returned a defined value for an expression
LenientReturned(fn) ==
    /\ call.fn = fn
    /\ ~call.isStrict
    /\ CalcReturned
    /\ ret.kind = "returned"
    /\ ret.value # JsUndefined

\* C38: outside strict mode, whenever ifExprCalcStr returns a defined value
\* for an expression that value is a string, and whenever ifExprCalcNum
\* returns a defined value it is a number: a result of another type is
\* neither passed through unchanged nor returned under the wrong type
C38_LenientTyped ==
    /\ LenientReturned("ifExprCalcStr") => ret.value.typeOf = "string"
    /\ LenientReturned("ifExprCalcNum") => ret.value.typeOf = "number"

====
